---- MODULE Spec2Model ----
(***************************************************************************)
(* A model of the CraveQuest recipe engine: Recipe (models/recipe.py),     *)
(* User (models/user.py) and the menu loop of cli.py.                      *)
(*                                                                         *)
(* Numbers.  The code computes with Python floats.  Here every coefficient *)
(* is an integer number of hundredths (1.0 is 100, 0.1 is 10, 0.05 is 5),  *)
(* and every factor and value is an exact fraction [num, den] kept as two  *)
(* lists of integer factors; IEEE rounding is not modelled.  Products are  *)
(* multiplied out limb by limb (BigMul) because they exceed 32 bits.       *)
(*                                                                         *)
(* Text.  A string is a sequence of one-character strings, so that lower() *)
(* join() and the substring test `in` are computed, not assumed.           *)
(*                                                                         *)
(* Time.  The clock counts half days; timedelta.days is the floor of the   *)
(* elapsed time in whole days.                                             *)
(***************************************************************************)
EXTENDS Integers, Sequences, FiniteSets, TLC

VARIABLES
    recipes,   \* cli.py main: the list `recipes`; each element a Recipe
    user,      \* cli.py main: `user`, a User
    now,       \* datetime.now(), in half days
    out,       \* what the last operation returned, printed or raised
    before,    \* the User as it was when the last operation began
    crashed,   \* an exception left main(): the process has ended
    cast,      \* how many votes this session has cast (bounds the search)
    history,   \* cooking_log.py: UserCookingHistory.history, the sessions
    procs,     \* threads inside User.adjust_coefficients: position and locals
    db         \* feedback_service.py: the rows of the session's database

vars == <<recipes, user, now, out, before, crashed, cast, history, procs, db>>

-----------------------------------------------------------------------------
(* constants.py *)

SCORE_LEVELS == <<"Hate", "Don't Like", "Meh", "Like", "Love", "Crave", "Legendary">>

CLEANUP_LEVELS == <<"None", "Light", "Moderate", "Heavy">>

Keys(levels) == {levels[i] : i \in 1..Len(levels)}

\* list(levels.keys()).index(rank): the 0-based position of rank
IndexOf(levels, rank) == (CHOOSE i \in 1..Len(levels) : levels[i] = rank) - 1

-----------------------------------------------------------------------------
(* Arithmetic helpers *)

Max(a, b) == IF a >= b THEN a ELSE b

Min(a, b) == IF a <= b THEN a ELSE b

RECURSIVE SumSeq(_)
SumSeq(s) == IF s = <<>> THEN 0 ELSE Head(s) + SumSeq(Tail(s))

\* Natural numbers of any size: little-endian limbs in base 10^4, no
\* leading zero limb (zero is the empty sequence).
Base == 100 * 100

RECURSIVE BigMul(_, _, _)
BigMul(limbs, k, carry) ==
    IF limbs = <<>>
    THEN IF carry = 0 THEN <<>> ELSE <<carry % Base>> \o BigMul(<<>>, k, carry \div Base)
    ELSE LET t == Head(limbs) * k + carry
         IN  <<t % Base>> \o BigMul(Tail(limbs), k, t \div Base)

RECURSIVE BigProd(_)
BigProd(factors) ==
    IF factors = <<>> THEN <<1>>
    ELSE IF Head(factors) = 0 THEN <<>>
    ELSE BigMul(BigProd(Tail(factors)), Head(factors), 0)

RECURSIVE BigLessFrom(_, _, _)
BigLessFrom(a, b, i) ==
    IF i = 0 THEN FALSE
    ELSE IF a[i] # b[i] THEN a[i] < b[i]
    ELSE BigLessFrom(a, b, i - 1)

BigLess(a, b) ==
    IF Len(a) # Len(b) THEN Len(a) < Len(b) ELSE BigLessFrom(a, b, Len(a))

\* Exact non-negative fractions: num and den are lists of integer factors,
\* every factor of den positive.
Frac(n, d) == [num |-> <<n>>, den |-> <<d>>]

FMul(x, y) == [num |-> x.num \o y.num, den |-> x.den \o y.den]

FDiv(x, y) == [num |-> x.num \o y.den, den |-> x.den \o y.num]

FLess(x, y) == BigLess(BigProd(x.num \o y.den), BigProd(y.num \o x.den))

FLeq(x, y) == ~FLess(y, x)

FEq(x, y) == ~FLess(x, y) /\ ~FLess(y, x)

FIsZero(x) == BigProd(x.num) = <<>>

-----------------------------------------------------------------------------
(* Text *)

Lower(c) ==
    IF c = "A" THEN "a" ELSE IF c = "B" THEN "b" ELSE IF c = "N" THEN "n"
    ELSE IF c = "H" THEN "h" ELSE IF c = "M" THEN "m"
    ELSE IF c = "P" THEN "p" ELSE IF c = "T" THEN "t" ELSE c

\* str.lower()
lower(s) == [i \in 1..Len(s) |-> Lower(s[i])]

\* " ".join(lines)
RECURSIVE join(_)
join(lines) ==
    IF lines = <<>> THEN <<>>
    ELSE IF Len(lines) = 1 THEN lines[1]
    ELSE lines[1] \o <<" ">> \o join(Tail(lines))

\* s in t
Contains(t, s) ==
    \E i \in 0..(Len(t) - Len(s)) : SubSeq(t, i + 1, i + Len(s)) = s

-----------------------------------------------------------------------------
(* models/user.py *)

CoeffNames == {"C_taste", "C_risk", "C_time", "C_effort", "C_sacrifice"}

\* 1.0, 0.1, 0.1 and 0.05 in hundredths
CoeffCap == 100
CoeffFloor == 10
Step == 10
TasteStep == 5

\* User.__init__
NewUser ==
    [cook_ability |-> "Home Cook",
     novelty_push |-> 50,
     nostalgia_sensitivity |-> 50,
     allergies |-> <<>>,
     likes |-> <<>>,
     dislikes |-> <<>>,
     coefficients |-> [c \in CoeffNames |-> CoeffCap]]

\* The exception adjust_coefficients raises before it changes anything, or
\* "none": index() of an unknown rank, division by servings = 0.
adjust_raises(recipe, taste_rank, cleanup_rank) ==
    IF taste_rank \notin Keys(SCORE_LEVELS) \/ cleanup_rank \notin Keys(CLEANUP_LEVELS)
    THEN "ValueError"
    ELSE IF recipe.servings = 0 THEN "ZeroDivisionError"
    ELSE "none"

\* Mutant: the "Above Love" branch adds without the cap of 1.0.
TasteBranch_NoCap(coeffs, recipe, taste_idx) ==
    IF taste_idx < 3
    THEN [coeffs EXCEPT
            !["C_time"] = IF recipe.prep_time + recipe.cook_time > 45 * recipe.servings
                          THEN Max(CoeffFloor, @ - Step) ELSE @,
            !["C_effort"] = IF Len(recipe.steps) > 10
                            THEN Max(CoeffFloor, @ - Step) ELSE @,
            !["C_sacrifice"] = IF Len(recipe.ingredients) > 5 * recipe.servings
                               THEN Max(CoeffFloor, @ - Step) ELSE @,
            !["C_taste"] = Max(CoeffFloor, @ - TasteStep)]
    ELSE IF taste_idx > 4
    THEN [coeffs EXCEPT !["C_taste"] = @ + TasteStep]
    ELSE coeffs

\* Mutant: the "Above Love" branch begins at Love.
TasteBranch_FromLove(coeffs, recipe, taste_idx) ==
    IF taste_idx < 3
    THEN [coeffs EXCEPT
            !["C_time"] = IF recipe.prep_time + recipe.cook_time > 45 * recipe.servings
                          THEN Max(CoeffFloor, @ - Step) ELSE @,
            !["C_effort"] = IF Len(recipe.steps) > 10
                            THEN Max(CoeffFloor, @ - Step) ELSE @,
            !["C_sacrifice"] = IF Len(recipe.ingredients) > 5 * recipe.servings
                               THEN Max(CoeffFloor, @ - Step) ELSE @,
            !["C_taste"] = Max(CoeffFloor, @ - TasteStep)]
    ELSE IF taste_idx > 3
    THEN [coeffs EXCEPT !["C_taste"] = Min(CoeffCap, @ + TasteStep)]
    ELSE coeffs

\* Mutant: the three recipe thresholds are reached at 45, 10 and 5.
TasteBranch_AtThreshold(coeffs, recipe, taste_idx) ==
    IF taste_idx < 3
    THEN [coeffs EXCEPT
            !["C_time"] = IF recipe.prep_time + recipe.cook_time >= 45 * recipe.servings
                          THEN Max(CoeffFloor, @ - Step) ELSE @,
            !["C_effort"] = IF Len(recipe.steps) >= 10
                            THEN Max(CoeffFloor, @ - Step) ELSE @,
            !["C_sacrifice"] = IF Len(recipe.ingredients) >= 5 * recipe.servings
                               THEN Max(CoeffFloor, @ - Step) ELSE @,
            !["C_taste"] = Max(CoeffFloor, @ - TasteStep)]
    ELSE IF taste_idx > 4
    THEN [coeffs EXCEPT !["C_taste"] = Min(CoeffCap, @ + TasteStep)]
    ELSE coeffs

\* The taste branch of adjust_coefficients (lines 61-70)
TasteBranch(coeffs, recipe, taste_idx) ==
    LET \* total_time > 45, with total_time = (prep + cook) / servings
        slow == recipe.prep_time + recipe.cook_time > 45 * recipe.servings
        long == Len(recipe.steps) > 10
        \* ingred_per_serving > 5
        many == Len(recipe.ingredients) > 5 * recipe.servings
    IN  IF taste_idx < 3
        THEN [coeffs EXCEPT
                !["C_time"] = IF slow THEN Max(CoeffFloor, @ - Step) ELSE @,
                !["C_effort"] = IF long THEN Max(CoeffFloor, @ - Step) ELSE @,
                !["C_sacrifice"] = IF many THEN Max(CoeffFloor, @ - Step) ELSE @,
                !["C_taste"] = Max(CoeffFloor, @ - TasteStep)]
        ELSE IF taste_idx > 4
        THEN [coeffs EXCEPT !["C_taste"] = Min(CoeffCap, @ + TasteStep)]
        ELSE coeffs

\* Mutant: a heavy cleanup also lowers C_risk.
CleanupBranch_AlsoRisk(coeffs, cleanup_idx) ==
    IF cleanup_idx > 1
    THEN [coeffs EXCEPT !["C_effort"] = Max(CoeffFloor, @ - Step),
                        !["C_risk"] = Max(CoeffFloor, @ - Step)]
    ELSE coeffs

\* Mutant: a cleanup rank up to "Light" gives C_effort a step back.
CleanupBranch_Restores(coeffs, cleanup_idx) ==
    IF cleanup_idx > 1
    THEN [coeffs EXCEPT !["C_effort"] = Max(CoeffFloor, @ - Step)]
    ELSE [coeffs EXCEPT !["C_effort"] = Min(CoeffCap, @ + Step)]

\* The cleanup branch of adjust_coefficients (lines 72-73)
CleanupBranch(coeffs, cleanup_idx) ==
    IF cleanup_idx > 1
    THEN [coeffs EXCEPT !["C_effort"] = Max(CoeffFloor, @ - Step)]
    ELSE coeffs

\* Mutant: the cleanup rule as an elif of the taste rule, so that one event
\* fires at most one of the two.
adjust_coefficients_Elif(u, recipe, taste_rank, cleanup_rank) ==
    LET taste_idx == IndexOf(SCORE_LEVELS, taste_rank)
        cleanup_idx == IndexOf(CLEANUP_LEVELS, cleanup_rank)
    IN  [u EXCEPT !.coefficients =
            IF taste_idx < 3 \/ taste_idx > 4
            THEN TasteBranch(@, recipe, taste_idx)
            ELSE CleanupBranch(@, cleanup_idx)]

\* User.adjust_coefficients, when it does not raise: the user afterwards
adjust_coefficients(u, recipe, taste_rank, cleanup_rank) ==
    LET taste_idx == IndexOf(SCORE_LEVELS, taste_rank)
        cleanup_idx == IndexOf(CLEANUP_LEVELS, cleanup_rank)
    IN  [u EXCEPT !.coefficients =
            CleanupBranch(TasteBranch(@, recipe, taste_idx), cleanup_idx)]

-----------------------------------------------------------------------------
(* models/recipe.py *)

NoTime == -1

\* Recipe.__init__ (owner, health_rating and macros_fit are not modelled:
\* nothing reads them).  difficulty = len(steps) / 2 is counted in halves.
Recipe(name, ingredients, steps, prep_time, cook_time, servings) ==
    [name |-> name,
     ingredients |-> ingredients,
     steps |-> steps,
     prep_time |-> prep_time,
     cook_time |-> cook_time,
     servings |-> servings,
     votes |-> <<>>,
     cleanups |-> <<>>,
     last_made |-> NoTime,
     made_count |-> 0,
     difficulty |-> Len(steps)]

\* The exception Recipe.add_feedback raises, or "none"
add_feedback_raises(taste, cleanup) ==
    IF taste \notin Keys(SCORE_LEVELS) \/ cleanup \notin Keys(CLEANUP_LEVELS)
    THEN "ValueError"
    ELSE "none"

\* Mutant: the cleanup rank is not recorded.
add_feedback_VotesOnly(r, taste, cleanup) ==
    [r EXCEPT !.votes = Append(@, taste)]

\* Recipe.add_feedback, when it does not raise
add_feedback(r, taste, cleanup) ==
    [r EXCEPT !.votes = Append(@, taste), !.cleanups = Append(@, cleanup)]

\* A mark_made that counts the cook without stamping last_made.
mark_made_KeepsDate(r, clock) ==
    [r EXCEPT !.made_count = @ + 1]

\* Recipe.mark_made
mark_made(r, clock) ==
    [r EXCEPT !.last_made = clock, !.made_count = @ + 1]

\* The factors of Recipe.calculate_value, each an exact fraction.

\* Mutant: the taste ranks count from 0, so "Hate" weighs nothing.
taste_avg_ZeroBased(r) ==
    Frac(SumSeq([i \in 1..Len(r.votes) |-> IndexOf(SCORE_LEVELS, r.votes[i])]),
         Len(r.votes))

\* taste_avg = sum(index(v) + 1 for v in votes) / len(votes)
taste_avg(r) ==
    Frac(SumSeq([i \in 1..Len(r.votes) |-> IndexOf(SCORE_LEVELS, r.votes[i]) + 1]),
         Len(r.votes))

\* cleanup_avg = sum(index(c) + 1 for c in cleanups) / len(cleanups), as the
\* pair (sum, count)
cleanup_sum(r) ==
    SumSeq([i \in 1..Len(r.cleanups) |-> IndexOf(CLEANUP_LEVELS, r.cleanups[i]) + 1])

\* skill_map.get(user.cook_ability, 2)
skill_factor(u) ==
    IF u.cook_ability = "Beginner" THEN 4
    ELSE IF u.cook_ability = "Chef" THEN 1
    ELSE 2

familiarity(r) == Max(1, 4 - r.made_count)

\* Mutant: risk without the "- 1".
risk_NoMinusOne(r, u) ==
    Frac(Max(12, Min(48, 4 * skill_factor(u) + Min(16, r.difficulty)
                         + 4 * familiarity(r))), 12)

\* risk = max(1, min(4, (skill_factor + min(4, difficulty / 2) + familiarity - 1) / 3)),
\* in twelfths: with difficulty in halves, 12 * min(4, difficulty / 2) / 3 is
\* min(16, r.difficulty).
risk(r, u) ==
    Frac(Max(12, Min(48, 4 * skill_factor(u) + Min(16, r.difficulty)
                         + 4 * familiarity(r) - 4)), 12)

\* Mutant: the upper bounds of the buckets are exclusive.
time_Exclusive(r) ==
    LET t == r.prep_time + r.cook_time
        s == r.servings
    IN  Frac(IF t < 20 * s THEN 1 ELSE IF t < 45 * s THEN 2 ELSE IF t < 90 * s THEN 3 ELSE 4, 1)

\* time = 1 if tps <= 20 else 2 if tps <= 45 else 3 if tps <= 90 else 4,
\* with tps = (prep_time + cook_time) / servings and servings > 0
time(r) ==
    LET t == r.prep_time + r.cook_time
        s == r.servings
    IN  Frac(IF t <= 20 * s THEN 1 ELSE IF t <= 45 * s THEN 2 ELSE IF t <= 90 * s THEN 3 ELSE 4, 1)

\* cleanup_avg as a fraction
cleanup_avg(r) == Frac(cleanup_sum(r), Len(r.cleanups))

\* step_factor = min(4, len(steps) / 3), in thirds
step_factor(r) == Frac(Min(12, Len(r.steps)), 3)

\* Mutant: effort without its floor of 1.
effort_NoFloor(r) ==
    LET m == Len(r.cleanups)
    IN  Frac(Min(24 * m, m * step_factor(r).num[1] + 3 * cleanup_sum(r) - 3 * m), 6 * m)

\* effort = max(1, min(4, (step_factor + cleanup_avg - 1) / 2)), over
\* 6 * len(cleanups)
effort(r) ==
    LET m == Len(r.cleanups)
    IN  Frac(Max(6 * m, Min(24 * m, m * step_factor(r).num[1] + 3 * cleanup_sum(r) - 3 * m)),
             6 * m)

\* ingred_factor = min(4, len(ingredients) / servings / 2);
\* sacrifice = max(1, ingred_factor), over 2 * servings
sacrifice(r) ==
    LET s == r.servings
    IN  Frac(Max(2 * s, Min(8 * s, Len(r.ingredients))), 2 * s)

Coeff(u, c) == Frac(u.coefficients[c], CoeffCap)

\* Mutant: the last factor divides instead of multiplying.
denominator_Slash(r, u) ==
    FDiv(FMul(FMul(FMul(Coeff(u, "C_risk"), risk(r, u)),
                   FMul(Coeff(u, "C_time"), time(r))),
              FMul(Coeff(u, "C_effort"), effort(r))),
         FMul(Coeff(u, "C_sacrifice"), sacrifice(r)))

\* denominator = (C_risk * risk) * (C_time * time) * (C_effort * effort) * (C_sacrifice * sacrifice)
denominator(r, u) ==
    FMul(FMul(FMul(FMul(Coeff(u, "C_risk"), risk(r, u)),
                   FMul(Coeff(u, "C_time"), time(r))),
              FMul(Coeff(u, "C_effort"), effort(r))),
         FMul(Coeff(u, "C_sacrifice"), sacrifice(r)))

ZeroValue == Frac(0, 1)

\* Mutant: the factors are computed before the test for an empty history.
calculate_value_raises_Late(r, u) ==
    IF r.servings = 0 THEN "ZeroDivisionError"
    ELSE IF r.votes = <<>> THEN "none"
    ELSE IF r.cleanups = <<>> THEN "ZeroDivisionError"
    ELSE "none"

\* The exception Recipe.calculate_value raises, or "none": the early return
\* comes first, then the divisions by len(cleanups) and by servings.
calculate_value_raises(r, u) ==
    IF r.votes = <<>> THEN "none"
    ELSE IF r.cleanups = <<>> \/ r.servings = 0 THEN "ZeroDivisionError"
    ELSE "none"

\* Recipe.calculate_value, when it does not raise
calculate_value(r, u) ==
    IF r.votes = <<>> THEN ZeroValue
    ELSE FDiv(FMul(Coeff(u, "C_taste"), taste_avg(r)), denominator(r, u))

\* Recipe.has_allergy_or_dislike
has_allergy_or_dislike(r, u) ==
    LET ingredients_lower == lower(join(r.ingredients))
    IN  \/ \E i \in 1..Len(u.allergies) : Contains(ingredients_lower, lower(u.allergies[i]))
        \/ \E i \in 1..Len(u.dislikes) : Contains(ingredients_lower, lower(u.dislikes[i]))

-----------------------------------------------------------------------------
(* Inputs *)

\* n ingredient lines and n steps
Lines(n) == [i \in 1..n |-> <<"b">>]

Steps(n) == [i \in 1..n |-> "s"]

\* a rank that is no key of SCORE_LEVELS or CLEANUP_LEVELS
BadRank == "Yum"

TasteInputs == Keys(SCORE_LEVELS) \cup {BadRank}

CleanupInputs == Keys(CLEANUP_LEVELS) \cup {BadRank}

\* 50 minutes, 12 steps and 6 ingredients per serving
GoldenRecipe == Recipe("golden", Lines(6), Steps(12), 20, 30, 1)

\* exactly 45 minutes, 10 steps and 5 ingredients per serving
EdgeRecipe == Recipe("edge", Lines(10), Steps(10), 30, 60, 2)

ZeroServings == Recipe("zero", Lines(1), Steps(1), 10, 10, 0)

LearnRecipes == <<GoldenRecipe, EdgeRecipe, ZeroServings>>

CallRecipes ==
    <<GoldenRecipe, EdgeRecipe, ZeroServings,
      Recipe("slow", Lines(1), Steps(1), 30, 62, 2),
      Recipe("long", Lines(2), Steps(11), 5, 5, 2),
      Recipe("many", Lines(11), Steps(3), 10, 10, 2)>>

Coefficients(taste, rsk, tm, eff, sac) ==
    [c \in CoeffNames |->
        IF c = "C_taste" THEN taste ELSE IF c = "C_risk" THEN rsk
        ELSE IF c = "C_time" THEN tm ELSE IF c = "C_effort" THEN eff ELSE sac]

Default == [c \in CoeffNames |-> CoeffCap]

LearnStarts ==
    {Default, [c \in CoeffNames |-> CoeffFloor], Coefficients(97, 55, 13, 24, 100)}

CallStarts ==
    {Coefficients(t, CoeffCap, m, e, s) : t, m, e, s \in {CoeffFloor, 15, CoeffCap}}

-----------------------------------------------------------------------------
(* SpecLearn: any sequence of User.adjust_coefficients calls on one user *)

InitLearn ==
    /\ recipes = LearnRecipes
    /\ user \in {[NewUser EXCEPT !.coefficients = c] : c \in LearnStarts}
    /\ now = 0
    /\ out = [op |-> "init"]
    /\ before = NewUser
    /\ crashed = FALSE
    /\ cast = 0
    /\ history = <<>>
    /\ procs = <<>>
    /\ db = <<>>

\* user.adjust_coefficients(recipe, taste, cleanup): an exception leaves the
\* user as it was
AfterFeedback(u, recipe, taste, cleanup) ==
    IF adjust_raises(recipe, taste, cleanup) = "none"
    THEN adjust_coefficients(u, recipe, taste, cleanup)
    ELSE u

ApplyFeedback ==
    \E i \in 1..Len(recipes), taste \in TasteInputs, cleanup \in CleanupInputs :
        /\ user' = AfterFeedback(user, recipes[i], taste, cleanup)
        /\ out' = [op |-> "adjust_coefficients",
                   raised |-> adjust_raises(recipes[i], taste, cleanup)]
        /\ UNCHANGED <<recipes, now, before, crashed, cast, history, procs, db>>

NextLearn == ApplyFeedback

SpecLearn == InitLearn /\ [][NextLearn]_vars

-----------------------------------------------------------------------------
(* SpecCall: one User.adjust_coefficients call, its arguments recorded *)

InitCall ==
    /\ recipes = CallRecipes
    /\ user \in {[NewUser EXCEPT !.coefficients = c] : c \in CallStarts}
    /\ now = 0
    /\ out = [op |-> "init"]
    /\ before = user
    /\ crashed = FALSE
    /\ cast = 0
    /\ history = <<>>
    /\ procs = <<>>
    /\ db = <<>>

ApplyOnce ==
    /\ out.op = "init"
    /\ \E i \in 1..Len(recipes), taste \in TasteInputs, cleanup \in CleanupInputs :
        /\ user' = AfterFeedback(user, recipes[i], taste, cleanup)
        /\ out' = [op |-> "adjust_coefficients",
                   raised |-> adjust_raises(recipes[i], taste, cleanup),
                   recipe |-> i, taste |-> taste, cleanup |-> cleanup]
        /\ before' = user
        /\ UNCHANGED <<recipes, now, crashed, cast, history, procs, db>>

NextCall == ApplyOnce

SpecCall == InitCall /\ [][NextCall]_vars

-----------------------------------------------------------------------------
(* Claims about User.adjust_coefficients *)

InRange(coeffs) == \A c \in CoeffNames : CoeffFloor <= coeffs[c] /\ coeffs[c] <= CoeffCap

\* C1: from a user whose five coefficients lie in [0.1, 1.0], after any
\* sequence of adjust_coefficients calls, with any taste rank, cleanup rank
\* and recipe, every coefficient still lies in [0.1, 1.0].
C1_ClampInvariant == InRange(user.coefficients)

\* C1 witness: from the default user the calls have driven three
\* coefficients down to the floor, where the clamp decides the result.
C1_Witness ==
    /\ out.op = "adjust_coefficients"
    /\ out.raised = "none"
    /\ user.coefficients["C_risk"] = CoeffCap
    /\ user.coefficients["C_taste"] = CoeffFloor
    /\ user.coefficients["C_time"] = CoeffFloor
    /\ user.coefficients["C_effort"] = CoeffFloor

\* timePerServing = 50, stepCount = 12, ingredPerServing = 6
IsGoldenRecipe(r) ==
    /\ r.servings > 0
    /\ r.prep_time + r.cook_time = 50 * r.servings
    /\ Len(r.steps) = 12
    /\ Len(r.ingredients) = 6 * r.servings

GoldenCall ==
    /\ out.op = "adjust_coefficients"
    /\ before.coefficients = Default
    /\ out.taste = "Hate"
    /\ out.cleanup = "Heavy"
    /\ IsGoldenRecipe(recipes[out.recipe])

\* C2: from all-default coefficients, one adjust_coefficients call with
\* taste Hate and cleanup Heavy on a recipe with 50 minutes, 12 steps and 6
\* ingredients per serving gives C_taste 0.95, C_risk 1.0, C_time 0.9,
\* C_effort 0.8 and C_sacrifice 0.9.
C2_GoldenFeedback ==
    GoldenCall => user.coefficients = Coefficients(95, 100, 90, 80, 90)

C2_Witness == GoldenCall /\ out.raised = "none"

\* a call of adjust_coefficients with ranks of the two scales on a recipe
\* that serves someone
RankedCall ==
    /\ out.op = "adjust_coefficients"
    /\ out.taste \in Keys(SCORE_LEVELS)
    /\ out.cleanup \in Keys(CLEANUP_LEVELS)
    /\ recipes[out.recipe].servings >= 1

\* the coefficients after the cleanup branch alone
CleanupOnly == CleanupBranch(before.coefficients, IndexOf(CLEANUP_LEVELS, out.cleanup))

\* C20: a taste index below 3 (Hate, Don't Like, Meh) lowers C_taste by 0.05
\* with floor 0.1; a taste index above 4 (Crave, Legendary) raises C_taste by
\* 0.05 with cap 1.0 and the taste branch changes no other coefficient; a
\* taste index of 3 or 4 (Like, Love) leaves C_taste unchanged.
C20_TasteBuckets ==
    RankedCall =>
        LET taste_idx == IndexOf(SCORE_LEVELS, out.taste)
            was == before.coefficients["C_taste"]
        IN  /\ out.raised = "none"
            /\ taste_idx < 3 =>
                   user.coefficients["C_taste"] = Max(CoeffFloor, was - TasteStep)
            /\ taste_idx > 4 =>
                   /\ user.coefficients["C_taste"] = Min(CoeffCap, was + TasteStep)
                   /\ \A c \in CoeffNames \ {"C_taste"} :
                          user.coefficients[c] = CleanupOnly[c]
            /\ taste_idx \in {3, 4} => user.coefficients["C_taste"] = was

\* C20 witness: Crave met the cap, on a recipe slow, long and rich enough
\* for the three other rules, and Heavy cleanup took its own step.
C20_Witness ==
    /\ RankedCall
    /\ out.taste = "Crave"
    /\ out.cleanup = "Heavy"
    /\ IsGoldenRecipe(recipes[out.recipe])
    /\ before.coefficients["C_taste"] = CoeffCap
    /\ user.coefficients["C_taste"] = CoeffCap
    /\ user.coefficients["C_effort"] < before.coefficients["C_effort"]

\* a coefficient after one decrement of 0.1, if it is due
Dropped(coeffs, c, due) == IF due THEN Max(CoeffFloor, coeffs[c] - Step) ELSE coeffs[c]

\* C21: with taste index below 3, C_time drops by 0.1 (floor 0.1) iff
\* timePerServing > 45, C_effort iff stepCount > 10 and C_sacrifice iff
\* ingredients per serving > 5, so at exactly 45, 10 and 5 nothing drops;
\* with taste index >= 3 none of the three decrements happens.  C_effort is
\* compared after the cleanup rule, which follows the taste rule.
C21_StrictThresholds ==
    RankedCall =>
        LET recipe == recipes[out.recipe]
            disliked == IndexOf(SCORE_LEVELS, out.taste) < 3
            slow == recipe.prep_time + recipe.cook_time > 45 * recipe.servings
            long == Len(recipe.steps) > 10
            many == Len(recipe.ingredients) > 5 * recipe.servings
            was == before.coefficients
            stepped == [was EXCEPT !["C_effort"] = Dropped(was, "C_effort", disliked /\ long)]
        IN  /\ user.coefficients["C_time"] = Dropped(was, "C_time", disliked /\ slow)
            /\ user.coefficients["C_sacrifice"] = Dropped(was, "C_sacrifice", disliked /\ many)
            /\ user.coefficients["C_effort"] =
                   CleanupBranch(stepped, IndexOf(CLEANUP_LEVELS, out.cleanup))["C_effort"]

\* C21 witness: Hate on the recipe with exactly 45 minutes, 10 steps and 5
\* ingredients per serving lowered C_taste and none of the three.
C21_Witness ==
    /\ RankedCall
    /\ out.taste = "Hate"
    /\ out.cleanup = "None"
    /\ recipes[out.recipe] = EdgeRecipe
    /\ before.coefficients = Default
    /\ user.coefficients = Coefficients(95, 100, 100, 100, 100)

-----------------------------------------------------------------------------
(* SpecValue: one recipe and one user; the recipe is voted on and marked   *)
(* made through Recipe's methods, and Recipe.calculate_value is called.    *)

MaxVotes == 2
MaxMade == 4

ValueRecipes ==
    {Recipe("g3", Lines(3), Steps(3), 10, 10, 4),
     Recipe("g12", Lines(12), Steps(3), 10, 10, 4),
     Recipe("g40", Lines(40), Steps(3), 10, 10, 4),
     Recipe("big", Lines(6), Steps(20), 60, 60, 1),
     Recipe("mid", Lines(2), Steps(5), 20, 25, 1),
     ZeroServings}

ValueEvents ==
    {<<"Hate", "Heavy">>, <<"Love", "Light">>, <<"Legendary", "None">>,
     <<"Meh", "Moderate">>, <<BadRank, "Light">>}

Abilities == {"Beginner", "Home Cook", "Chef"}

InitValue ==
    /\ recipes \in {<<r>> : r \in ValueRecipes}
    /\ user \in {[NewUser EXCEPT !.coefficients = c, !.cook_ability = a] :
                    c \in LearnStarts, a \in Abilities}
    /\ now = 0
    /\ out = [op |-> "init"]
    /\ before = NewUser
    /\ crashed = FALSE
    /\ cast = 0
    /\ history = <<>>
    /\ procs = <<>>
    /\ db = <<>>

\* recipe.add_feedback(taste, cleanup)
AddFeedback ==
    \E e \in ValueEvents :
        /\ Len(recipes[1].votes) < MaxVotes
        /\ recipes' = IF add_feedback_raises(e[1], e[2]) = "none"
                      THEN [recipes EXCEPT ![1] = add_feedback(@, e[1], e[2])]
                      ELSE recipes
        /\ out' = [op |-> "add_feedback", raised |-> add_feedback_raises(e[1], e[2])]
        /\ UNCHANGED <<user, now, before, crashed, cast, history, procs, db>>

\* recipe.mark_made()
MarkMade ==
    /\ recipes[1].made_count < MaxMade
    /\ recipes' = [recipes EXCEPT ![1] = mark_made(@, now)]
    /\ out' = [op |-> "mark_made"]
    /\ UNCHANGED <<user, now, before, crashed, cast, history, procs, db>>

\* recipe.calculate_value(user)
CalculateValue ==
    /\ out' = IF calculate_value_raises(recipes[1], user) = "none"
              THEN [op |-> "calculate_value", raised |-> "none",
                    value |-> calculate_value(recipes[1], user)]
              ELSE [op |-> "calculate_value",
                    raised |-> calculate_value_raises(recipes[1], user)]
    /\ UNCHANGED <<recipes, user, now, before, crashed, cast, history, procs, db>>

NextValue == AddFeedback \/ MarkMade \/ CalculateValue

SpecValue == InitValue /\ [][NextValue]_vars

-----------------------------------------------------------------------------
(* Claims about Recipe.calculate_value *)

One == Frac(1, 1)

Calculated == out.op = "calculate_value"

\* calculate_value was called on a recipe with servings >= 1 and a
\* non-empty history, for a user whose coefficients lie in [0.1, 1.0]
ValueCase ==
    /\ Calculated
    /\ recipes[1].servings >= 1
    /\ recipes[1].votes # <<>>
    /\ InRange(user.coefficients)

\* C3: for a recipe with servings >= 1 and a non-empty history and a user
\* with coefficients in [0.1, 1.0], the factors risk, time, effort and
\* sacrifice of calculate_value are each >= 1, the denominator is strictly
\* positive, and the call does not divide by zero.
C3_FactorsAtLeastOne ==
    ValueCase =>
        /\ out.raised = "none"
        /\ FLeq(One, risk(recipes[1], user))
        /\ FLeq(One, time(recipes[1]))
        /\ FLeq(One, effort(recipes[1]))
        /\ FLeq(One, sacrifice(recipes[1]))
        /\ FLess(ZeroValue, denominator(recipes[1], user))

\* C3 witness: the three-step recipe with one cleanup vote None, where
\* (1 + 1 - 1) / 2 = 0.5 and only the floor makes effort 1.
C3_Witness ==
    /\ ValueCase
    /\ recipes[1].name = "g3"
    /\ recipes[1].cleanups = <<"None">>
    /\ FEq(One, effort(recipes[1]))

\* C4: calculate_value returns exactly 0.0 whenever the history is empty,
\* for every recipe and user, without evaluating any other factor (so also
\* where a factor would divide by servings = 0).
C4_ZeroWhenEmpty ==
    (Calculated /\ recipes[1].votes = <<>>) =>
        (out.raised = "none" /\ out.value = ZeroValue)

C4_Witness ==
    /\ Calculated
    /\ recipes[1].votes = <<>>
    /\ recipes[1].servings = 0
    /\ out.raised = "none"

\* coefficient values from 0.1 to 1.0, and the pairs of neighbours among them
CoeffGrid == {10, 40, 70, 100}

GridSteps == {p \in CoeffGrid \X CoeffGrid :
                 p[1] < p[2] /\ ~\E z \in CoeffGrid : p[1] < z /\ z < p[2]}

WithCoeff(u, c, x) == [u EXCEPT !.coefficients[c] = x]

ValueAt(c, x) == calculate_value(recipes[1], WithCoeff(user, c, x))

\* C5: with the recipe, its history and the other coefficients fixed,
\* calculate_value is non-decreasing in C_taste and non-increasing in each
\* of C_risk, C_time, C_effort and C_sacrifice, over [0.1, 1.0].
C5_Monotone ==
    ValueCase =>
        \A p \in GridSteps :
            /\ FLeq(ValueAt("C_taste", p[1]), ValueAt("C_taste", p[2]))
            /\ \A c \in CoeffNames \ {"C_taste"} :
                   FLeq(ValueAt(c, p[2]), ValueAt(c, p[1]))

\* C5 witness: a case where the value does move with the coefficients
C5_Witness ==
    /\ ValueCase
    /\ FLess(ValueAt("C_taste", CoeffFloor), ValueAt("C_taste", CoeffCap))
    /\ FLess(ValueAt("C_effort", CoeffCap), ValueAt("C_effort", CoeffFloor))

\* prepTime 10, cookTime 10, servings 4, three steps, madeCount 0, one
\* feedback event (Love, Light), a default Home Cook user
GoldenValueCase ==
    /\ Calculated
    /\ recipes[1].prep_time = 10
    /\ recipes[1].cook_time = 10
    /\ recipes[1].servings = 4
    /\ Len(recipes[1].steps) = 3
    /\ recipes[1].made_count = 0
    /\ recipes[1].votes = <<"Love">>
    /\ recipes[1].cleanups = <<"Light">>
    /\ user.cook_ability = "Home Cook"
    /\ user.coefficients = Default

\* max(1, min(4, ingredientCount / 4 / 2)), in eighths
GoldenSacrifice(r) == Frac(Max(8, Min(32, Len(r.ingredients))), 8)

\* C6: in the golden scenario calculate_value derives tasteAvg 5,
\* cleanupAvg 2, skillFactor 2, familiarity 4, risk 23/12, time 1,
\* stepFactor 1 and effort 1, and returns 5 / (23/12 * sacrifice) with
\* sacrifice = max(1, min(4, ingredientCount / 4 / 2)).
C6_GoldenValue ==
    GoldenValueCase =>
        /\ out.raised = "none"
        /\ FEq(taste_avg(recipes[1]), Frac(5, 1))
        /\ FEq(cleanup_avg(recipes[1]), Frac(2, 1))
        /\ skill_factor(user) = 2
        /\ familiarity(recipes[1]) = 4
        /\ FEq(risk(recipes[1], user), Frac(23, 12))
        /\ FEq(time(recipes[1]), One)
        /\ FEq(step_factor(recipes[1]), One)
        /\ FEq(effort(recipes[1]), One)
        /\ FEq(out.value,
               FDiv(Frac(5, 1), FMul(Frac(23, 12), GoldenSacrifice(recipes[1]))))

\* C6 witness: the golden scenario with 12 ingredients (sacrifice 1.5)
C6_Witness == GoldenValueCase /\ Len(recipes[1].ingredients) = 12

-----------------------------------------------------------------------------
(* cli.py: the menu loop of main().  One action per menu choice; Tick is   *)
(* the passing of time between two choices.                                *)

MaxRecipes == 2
MaxCast == 2
MaxNow == 16

\* a day in clock units, and the 7 of `.days > 7`
HalfDaysPerDay == 2
FreshDays == 7

\* 7.5 and 8 days
TickSteps == {15, 16}

\* What the prompts of add_recipe and edit_recipe can be answered with: the
\* ingredient lines after split(",") and strip(), the step lines, the
\* numbers.  An empty ingredient answer becomes ["None"].
RecipeInputs ==
    {[name |-> <<"r", "1">>, ingredients |-> <<<<"a">>>>, steps |-> Steps(3),
      prep_time |-> 10, cook_time |-> 10, servings |-> 2],
     [name |-> <<"r", "2">>, ingredients |-> <<<<"A">>, <<"b">>>>, steps |-> Steps(6),
      prep_time |-> 30, cook_time |-> 30, servings |-> 1],
     [name |-> <<"r", "3">>, ingredients |-> <<>>, steps |-> Steps(1),
      prep_time |-> 5, cook_time |-> 0, servings |-> 0]}

\* [i.strip() for i in ingred_input.split(",") if i.strip()] or ["None"]
OrNone(lines) == IF lines = <<>> THEN <<<<"N", "o", "n", "e">>>> ELSE lines

\* The taste and cleanup numbers vote_recipe accepts, as the ranks they select
VoteInputs == {<<"Hate", "Heavy">>, <<"Love", "Light">>}

\* What the prompts of edit_user can be answered with: input().split(",")
\* is never empty, so the lists are always replaced; a blank answer is [""].
ProfileInputs ==
    {[cook_ability |-> "", allergies |-> <<<<"a", " ", "b">>>>, dislikes |-> <<<<"c">>>>],
     [cook_ability |-> "Chef", allergies |-> <<<<"c">>>>, dislikes |-> <<<<"A">>>>]}

Init ==
    /\ recipes = <<>>
    /\ user = NewUser
    /\ now = 0
    /\ out = [op |-> "init"]
    /\ before = NewUser
    /\ crashed = FALSE
    /\ cast = 0
    /\ history = <<>>
    /\ procs = <<>>
    /\ db = <<>>

\* add_recipe: choice 1
AddRecipe ==
    \E in \in RecipeInputs :
        /\ ~crashed
        /\ Len(recipes) < MaxRecipes
        /\ recipes' = Append(recipes,
                             Recipe(in.name, OrNone(in.ingredients), in.steps,
                                    in.prep_time, in.cook_time, in.servings))
        /\ out' = [op |-> "add_recipe"]
        /\ UNCHANGED <<user, now, before, crashed, cast, history, procs, db>>

\* vote_recipe and mark_made: choice 2.  add_feedback comes first; when
\* adjust_coefficients then raises, the exception leaves main().
Vote ==
    \E idx \in 1..Len(recipes), v \in VoteInputs :
        LET voted == add_feedback(recipes[idx], v[1], v[2])
            raised == adjust_raises(voted, v[1], v[2])
        IN  /\ ~crashed
            /\ cast < MaxCast
            /\ cast' = cast + 1
            /\ IF raised = "none"
               THEN /\ user' = adjust_coefficients(user, voted, v[1], v[2])
                    /\ recipes' = [recipes EXCEPT ![idx] = mark_made(voted, now)]
                    /\ crashed' = FALSE
               ELSE /\ user' = user
                    /\ recipes' = [recipes EXCEPT ![idx] = voted]
                    /\ crashed' = TRUE
            /\ out' = [op |-> "vote", raised |-> raised]
            /\ UNCHANGED <<now, before, history, procs, db>>

\* (datetime.now() - r.last_made).days
DaysSince(r, clock) == (clock - r.last_made) \div HalfDaysPerDay

\* not r.last_made or (datetime.now() - r.last_made).days > 7
Fresh(r, clock) == r.last_made = NoTime \/ DaysSince(r, clock) > FreshDays

\* Mutant: the filter forgets the allergy and dislike test.
Options_NoAllergy(rs, u, clock) ==
    LET Keep(i) == Fresh(rs[i], clock)
    IN  SelectSeq([i \in 1..Len(rs) |-> i], Keep)

\* options = [r for r in recipes if ... and not r.has_allergy_or_dislike(user)],
\* as the positions of the chosen recipes in `recipes`
Options(rs, u, clock) ==
    LET Keep(i) == Fresh(rs[i], clock) /\ ~has_allergy_or_dislike(rs[i], u)
    IN  SelectSeq([i \in 1..Len(rs) |-> i], Keep)

\* key=lambda r: r.calculate_value(user) if r.votes else 0
Key(r, u) == IF r.votes # <<>> THEN calculate_value(r, u) ELSE ZeroValue

KeyRaises(r, u) == IF r.votes # <<>> THEN calculate_value_raises(r, u) ELSE "none"

\* Mutant: a later item also replaces the best one when the keys are equal.
RECURSIVE MaxScan_LastWins(_, _, _, _, _)
MaxScan_LastWins(rs, u, options, k, best) ==
    IF k > Len(options) THEN best
    ELSE MaxScan_LastWins(rs, u, options, k + 1,
                          IF FLeq(Key(rs[best], u), Key(rs[options[k]], u))
                          THEN options[k] ELSE best)

\* max(options, key=...): the first item, replaced by a later one only when
\* the later key is greater
RECURSIVE MaxScan(_, _, _, _, _)
MaxScan(rs, u, options, k, best) ==
    IF k > Len(options) THEN best
    ELSE MaxScan(rs, u, options, k + 1,
                 IF FLess(Key(rs[best], u), Key(rs[options[k]], u))
                 THEN options[k] ELSE best)

\* choice 3, "Suggest Recipe": suggestion 0 stands for no suggestion;
\* candidates is the list as the choice found it
Suggest ==
    LET options == IF recipes = <<>> THEN <<>> ELSE Options(recipes, user, now)
        raises == \E k \in 1..Len(options) : KeyRaises(recipes[options[k]], user) # "none"
    IN  /\ ~crashed
        /\ crashed' = raises
        /\ out' = IF raises
                  THEN [op |-> "suggest", raised |-> "ZeroDivisionError"]
                  ELSE [op |-> "suggest", raised |-> "none",
                        candidates |-> recipes, options |-> options,
                        suggestion |-> IF options = <<>> THEN 0
                                       ELSE MaxScan(recipes, user, options, 2, options[1])]
        /\ UNCHANGED <<recipes, user, now, before, cast, history, procs, db>>

\* edit_user: choice 4 (novelty, nostalgia and likes answered blank or as
\* they are: nothing reads them)
EditProfile ==
    \E in \in ProfileInputs :
        /\ ~crashed
        /\ user' = [user EXCEPT
                      !.cook_ability = IF in.cook_ability \in {"Beginner", "Home Cook", "Chef"}
                                       THEN in.cook_ability ELSE @,
                      !.allergies = in.allergies,
                      !.dislikes = in.dislikes]
        /\ out' = [op |-> "edit_user"]
        /\ UNCHANGED <<recipes, now, before, crashed, cast, history, procs, db>>

\* recipes.pop(idx)
Pop(rs, idx) == SubSeq(rs, 1, idx - 1) \o SubSeq(rs, idx + 1, Len(rs))

\* remove_recipe: choice 6
RemoveRecipe ==
    \E idx \in 1..Len(recipes) :
        /\ ~crashed
        /\ recipes' = Pop(recipes, idx)
        /\ out' = [op |-> "remove_recipe"]
        /\ UNCHANGED <<user, now, before, crashed, cast, history, procs, db>>

\* A blank answer to every prompt of edit_recipe
Blank == [name |-> ""]

\* edit_recipe: choice 8.  Every prompt answered blank, or every prompt
\* answered with the fields of one RecipeInputs entry; either way
\* recipes[idx] becomes a new Recipe(...).
Edited(r, in) ==
    IF in = Blank
    THEN Recipe(r.name, r.ingredients, r.steps, r.prep_time, r.cook_time, r.servings)
    ELSE Recipe(in.name, OrNone(in.ingredients), in.steps,
                in.prep_time, in.cook_time, in.servings)

EditRecipe ==
    \E idx \in 1..Len(recipes), in \in RecipeInputs \cup {Blank} :
        /\ ~crashed
        /\ recipes' = [recipes EXCEPT ![idx] = Edited(@, in)]
        /\ out' = [op |-> "edit_recipe"]
        /\ UNCHANGED <<user, now, before, crashed, cast, history, procs, db>>

\* Time passes between two menu choices
Tick ==
    \E d \in TickSteps :
        /\ ~crashed
        /\ now + d <= MaxNow
        /\ now' = now + d
        /\ out' = [op |-> "tick"]
        /\ UNCHANGED <<recipes, user, before, crashed, cast, history, procs, db>>

Next ==
    \/ AddRecipe
    \/ Vote
    \/ Suggest
    \/ EditProfile
    \/ RemoveRecipe
    \/ EditRecipe
    \/ Tick

Spec == Init /\ [][Next]_vars

-----------------------------------------------------------------------------
(* Claims about "Suggest Recipe" and the recipe list *)

Range(seq) == {seq[i] : i \in 1..Len(seq)}

IsPrefix(s, t) == Len(s) <= Len(t) /\ SubSeq(t, 1, Len(s)) = s

Suggested == out.op = "suggest" /\ out.raised = "none"

\* more than 7 days have passed since lastMade
MoreThanAWeek(r) == now - r.last_made > FreshDays * HalfDaysPerDay

\* some single ingredient line contains, case-insensitively, a string of
\* the user's allergies or dislikes
LineMatches(r, u) ==
    \E i \in 1..Len(r.ingredients), s \in Range(u.allergies) \cup Range(u.dislikes) :
        Contains(lower(r.ingredients[i]), lower(s))

ClaimedSurvivors ==
    {i \in 1..Len(recipes) :
        /\ recipes[i].last_made = NoTime \/ MoreThanAWeek(recipes[i])
        /\ ~LineMatches(recipes[i], user)}

\* C7 (as claimed): the recipes "Suggest Recipe" considers are exactly those
\* with (lastMade null or more than 7 days passed since lastMade) and no
\* single ingredient line containing, case-insensitively, an allergy or a
\* dislike; the suggestion is one of them.
C7_ClaimedFilter ==
    Suggested =>
        /\ Range(out.options) = ClaimedSurvivors
        /\ out.suggestion # 0 => out.suggestion \in ClaimedSurvivors

\* a candidate without feedback counts as value 0
Value0(i) ==
    IF recipes[i].votes = <<>> THEN ZeroValue ELSE calculate_value(recipes[i], user)

\* C8: the suggestion is a surviving candidate of maximal value, a candidate
\* without feedback counting as 0; among several of maximal value it is the
\* first in the order of the list, and suggesting leaves the list as it was.
C8_StableArgmax ==
    Suggested =>
        /\ recipes = out.candidates
        /\ out.options # <<>> => out.suggestion \in Range(out.options)
        /\ \A k \in 1..(Len(out.options) - 1) : out.options[k] < out.options[k + 1]
        /\ out.suggestion # 0 =>
              \A j \in Range(out.options) :
                  /\ FLeq(Value0(j), Value0(out.suggestion))
                  /\ j < out.suggestion => FLess(Value0(j), Value0(out.suggestion))

\* C8 witness: two voted survivors tie on the maximal value and the earlier
\* one is the suggestion.
C8_Witness ==
    /\ Suggested
    /\ out.suggestion # 0
    /\ recipes[out.suggestion].votes # <<>>
    /\ \E j \in Range(out.options) :
          /\ j > out.suggestion
          /\ recipes[j].votes # <<>>
          /\ FEq(Value0(j), Value0(out.suggestion))

\* C9: "Suggest Recipe" yields no recipe when the list is empty, when the
\* only candidate matches an allergy, and whenever no candidate survives
\* the recency and allergy/dislike filter.
C9_NoneWhenNoSurvivor ==
    (Suggested /\ ClaimedSurvivors = {}) => out.suggestion = 0

\* C9 witness: the only candidate, never made, matches an allergy or dislike
C9_Witness ==
    /\ Suggested
    /\ Len(recipes) = 1
    /\ recipes[1].last_made = NoTime
    /\ LineMatches(recipes[1], user)
    /\ out.suggestion = 0

\* C10 (as claimed): no operation other than a removal takes a recorded
\* feedback event away from a recipe of the list or changes it: across
\* every such step each recipe's history extends its earlier history.
C10_AppendOnly ==
    [][Len(recipes') >= Len(recipes) =>
          \A i \in 1..Len(recipes) :
              /\ IsPrefix(recipes[i].votes, recipes'[i].votes)
              /\ IsPrefix(recipes[i].cleanups, recipes'[i].cleanups)]_vars

\* C27: a recipe voted on through the CLI is marked made at that moment:
\* after a completed vote some voted recipe carries the current time, and
\* in every running state each recipe with votes has been marked made once
\* per vote.  Hence a recipe with votes that "Suggest Recipe" returns was
\* last voted on more than 7 days (FreshDays whole days) earlier.
C27_VotedRestsAWeek ==
    /\ ~crashed =>
          \A i \in 1..Len(recipes) :
              recipes[i].votes # <<>> =>
                  /\ recipes[i].last_made # NoTime
                  /\ recipes[i].last_made <= now
                  /\ recipes[i].made_count = Len(recipes[i].votes)
    /\ (out.op = "vote" /\ out.raised = "none") =>
          \E i \in 1..Len(recipes) :
              /\ recipes[i].votes # <<>>
              /\ recipes[i].last_made = now
    /\ (Suggested /\ out.suggestion # 0) =>
          LET r == recipes[out.suggestion]
          IN  r.votes # <<>> =>
                  now - r.last_made > FreshDays * HalfDaysPerDay

C27_Witness ==
    /\ Suggested
    /\ out.suggestion # 0
    /\ recipes[out.suggestion].votes # <<>>
    /\ now - recipes[out.suggestion].last_made = (FreshDays + 1) * HalfDaysPerDay
    /\ \E j \in 1..Len(recipes) :
          /\ recipes[j].votes # <<>>
          /\ now - recipes[j].last_made <= FreshDays * HalfDaysPerDay
          /\ j \notin Range(out.options)

\* coefficient vectors at the corners of [0.1, 1.0]: C_taste at either end,
\* the four coefficients of the denominator together at either end
CornerCoefficients ==
    {Coefficients(t, o, o, o, o) : t, o \in {CoeffFloor, CoeffCap}}

\* C28: at each suggestion, calculate_value is strictly positive for every
\* recipe of the list with a non-empty history (and servings >= 1), the
\* user's coefficients lying in [0.1, 1.0]; so when a surviving candidate
\* has feedback, the suggestion is a candidate with feedback, and never one
\* without; its value is positive for the user's coefficients and for the
\* coefficient vectors CornerCoefficients at the ends of [0.1, 1.0].
C28_VotedBeatsUnvoted ==
    Suggested =>
        /\ \A c \in CoeffNames : user.coefficients[c] \in CoeffFloor..CoeffCap
        /\ \A i \in 1..Len(recipes) :
              (recipes[i].votes # <<>> /\ recipes[i].servings >= 1) =>
                  /\ calculate_value_raises(recipes[i], user) = "none"
                  /\ FLess(ZeroValue, calculate_value(recipes[i], user))
        /\ (\E j \in Range(out.options) : recipes[j].votes # <<>>) =>
              /\ out.suggestion \in Range(out.options)
              /\ recipes[out.suggestion].votes # <<>>
              /\ \A c \in CornerCoefficients :
                    FLess(ZeroValue,
                          calculate_value(recipes[out.suggestion],
                                          [user EXCEPT !.coefficients = c]))

\* C28 witness: the first survivor has no feedback, a later one was voted
\* "Hate" only, and the later one is the suggestion.
C28_Witness ==
    /\ Suggested
    /\ Len(out.options) >= 2
    /\ recipes[out.options[1]].votes = <<>>
    /\ out.suggestion # 0
    /\ out.suggestion > out.options[1]
    /\ recipes[out.suggestion].votes = <<"Hate">>

-----------------------------------------------------------------------------
(* SpecLog: UserCookingHistory.log_cook (models/cooking_log.py) on one user *)

MaxLog == 2

\* the dict log_cook builds before it touches the recipe
Session(recipe, taste, cleanup, clock) ==
    [recipe_name |-> recipe.name, date |-> clock, taste |-> taste, cleanup |-> cleanup]

\* The exception log_cook lets through, or "none": add_feedback validates the
\* ranks; adjust_coefficients divides by servings after the recipe was changed.
log_cook_raises(recipe, taste, cleanup) ==
    IF add_feedback_raises(taste, cleanup) # "none"
    THEN add_feedback_raises(taste, cleanup)
    ELSE adjust_raises(recipe, taste, cleanup)

\* the recipe as log_cook leaves it: add_feedback, then mark_made
log_cook_recipe(recipe, taste, cleanup, clock) ==
    IF add_feedback_raises(taste, cleanup) # "none"
    THEN recipe
    ELSE mark_made(add_feedback(recipe, taste, cleanup), clock)

\* the user as log_cook leaves it: adjust_coefficients is the last statement
log_cook_user(u, recipe, taste, cleanup, clock) ==
    IF log_cook_raises(recipe, taste, cleanup) # "none"
    THEN u
    ELSE adjust_coefficients(u, log_cook_recipe(recipe, taste, cleanup, clock),
                             taste, cleanup)

InitLog ==
    /\ recipes = LearnRecipes
    /\ user = NewUser
    /\ now = 0
    /\ out = [op |-> "init"]
    /\ before = user
    /\ crashed = FALSE
    /\ cast = 0
    /\ history = <<>>
    /\ procs = <<>>
    /\ db = <<>>

LogCook ==
    \E i \in 1..Len(recipes), taste \in TasteInputs, cleanup \in CleanupInputs :
        /\ Len(history) < MaxLog
        /\ history' = Append(history, Session(recipes[i], taste, cleanup, now))
        /\ recipes' = [recipes EXCEPT ![i] = log_cook_recipe(@, taste, cleanup, now)]
        /\ user' = log_cook_user(user, recipes[i], taste, cleanup, now)
        /\ out' = [op |-> "log_cook",
                   raised |-> log_cook_raises(recipes[i], taste, cleanup),
                   recipe |-> i, taste |-> taste, cleanup |-> cleanup,
                   was |-> recipes[i]]
        /\ before' = user
        /\ UNCHANGED <<now, crashed, cast, procs, db>>

NextLog == LogCook

SpecLog == InitLog /\ [][NextLog]_vars

-----------------------------------------------------------------------------
(* Claims about a feedback submission *)

Logged == out.op = "log_cook"

\* the submission took effect as a whole: one event, one cook, one adjustment
AllApplied ==
    LET r == recipes[out.recipe]
    IN  /\ r.votes = Append(out.was.votes, out.taste)
        /\ r.cleanups = Append(out.was.cleanups, out.cleanup)
        /\ r.made_count = out.was.made_count + 1
        /\ user.coefficients =
               adjust_coefficients(before, r, out.taste, out.cleanup).coefficients

\* the submission left the recipe and the user as they were
NothingApplied ==
    /\ recipes[out.recipe] = out.was
    /\ user = before

\* C11: a feedback submission is all-or-nothing for the recipe and the user.
\* A submission that completes has added exactly one event to the history,
\* one to madeCount and applied applyFeedback once; one whose ranks are
\* rejected has changed none of them; and no submission ends in between.
C11_AllOrNothing ==
    Logged =>
        /\ out.raised = "none" => AllApplied
        /\ out.raised = "ValueError" => NothingApplied
        /\ AllApplied \/ NothingApplied

-----------------------------------------------------------------------------
(* SpecRace: two threads inside User.adjust_coefficients of one User.  Each *)
(* assignment  coefficients[c] = max(0.1, coefficients[c] - d)  reads the   *)
(* coefficient, computes, and stores: two steps another thread can part.    *)

\* The assignments one call performs, in program order, as <<coefficient,
\* signed step>> (lines 61-73); the conditions read the recipe only.
Updates(recipe, taste_rank, cleanup_rank) ==
    LET taste_idx == IndexOf(SCORE_LEVELS, taste_rank)
        cleanup_idx == IndexOf(CLEANUP_LEVELS, cleanup_rank)
        slow == recipe.prep_time + recipe.cook_time > 45 * recipe.servings
        long == Len(recipe.steps) > 10
        many == Len(recipe.ingredients) > 5 * recipe.servings
        taste == IF taste_idx < 3
                 THEN (IF slow THEN << <<"C_time", -Step>> >> ELSE <<>>)
                      \o (IF long THEN << <<"C_effort", -Step>> >> ELSE <<>>)
                      \o (IF many THEN << <<"C_sacrifice", -Step>> >> ELSE <<>>)
                      \o << <<"C_taste", -TasteStep>> >>
                 ELSE IF taste_idx > 4 THEN << <<"C_taste", TasteStep>> >>
                 ELSE <<>>
        cleanup == IF cleanup_idx > 1 THEN << <<"C_effort", -Step>> >> ELSE <<>>
    IN  taste \o cleanup

\* Mutant: the step is applied with the wrong sign.
Store_WrongSign(old, delta) ==
    IF delta < 0 THEN Max(CoeffFloor, old - delta) ELSE Min(CoeffCap, old - delta)

\* the value one assignment stores, from the value it read:
\* max(0.1, old - d) or min(1.0, old + d)
Store(old, delta) ==
    IF delta < 0 THEN Max(CoeffFloor, old + delta) ELSE Min(CoeffCap, old + delta)

\* the calls the two threads make
RaceCalls ==
    {[recipe |-> r, taste |-> t, cleanup |-> c] :
        r \in {1, 2}, t \in {"Hate", "Like"}, c \in {"None", "Heavy"}}

Thread(call) == [call |-> call, at |-> 1, phase |-> "load", held |-> 0]

InitRace ==
    /\ recipes = CallRecipes
    /\ user = NewUser
    /\ now = 0
    /\ out = [op |-> "init"]
    /\ before = user
    /\ crashed = FALSE
    /\ cast = 0
    /\ history = <<>>
    /\ procs \in {<<Thread(a), Thread(b)>> : a, b \in RaceCalls}
    /\ db = <<>>

ThreadUpdates(p) == Updates(recipes[p.call.recipe], p.call.taste, p.call.cleanup)

\* the right-hand side reads self.coefficients[c]
Load ==
    \E t \in 1..Len(procs) :
        LET p == procs[t]
        IN  /\ p.at <= Len(ThreadUpdates(p))
            /\ p.phase = "load"
            /\ procs' = [procs EXCEPT ![t] =
                    [p EXCEPT !.phase = "store",
                              !.held = user.coefficients[ThreadUpdates(p)[p.at][1]]]]
            /\ UNCHANGED <<recipes, user, now, out, before, crashed, cast, history, db>>

\* the assignment stores max(0.1, held - d) into self.coefficients[c]
StoreStep ==
    \E t \in 1..Len(procs) :
        LET p == procs[t]
            upd == ThreadUpdates(p)[p.at]
        IN  /\ p.at <= Len(ThreadUpdates(p))
            /\ p.phase = "store"
            /\ user' = [user EXCEPT !.coefficients[upd[1]] = Store(p.held, upd[2])]
            /\ procs' = [procs EXCEPT ![t] =
                    [p EXCEPT !.phase = "load", !.at = @ + 1, !.held = 0]]
            /\ UNCHANGED <<recipes, now, out, before, crashed, cast, history, db>>

NextRace == Load \/ StoreStep

SpecRace == InitRace /\ [][NextRace]_vars

-----------------------------------------------------------------------------
(* Claims about concurrent applyFeedback *)

Returned(p) == p.at > Len(ThreadUpdates(p))

BothReturned == Len(procs) = 2 /\ Returned(procs[1]) /\ Returned(procs[2])

\* the coefficients after the two calls run one after the other
Serialized ==
    LET a == procs[1].call
        b == procs[2].call
    IN  adjust_coefficients(
            adjust_coefficients(before, recipes[a.recipe], a.taste, a.cleanup),
            recipes[b.recipe], b.taste, b.cleanup).coefficients

\* how many assignments to coefficient c the two calls perform
Events(c) ==
    Cardinality({<<t, k>> \in (1..2) \X (1..5) :
        k <= Len(ThreadUpdates(procs[t])) /\ ThreadUpdates(procs[t])[k][1] = c})

\* C12: applyFeedback is a read-modify-write without atomicity.  When two
\* calls on one user overlap, every coefficient ends between the serialized
\* result and its start, lower than the start if any event touched it, and
\* (the witness) an interleaving ends above the serialized result: a
\* decrement is lost.
C12_LostUpdateFrame ==
    BothReturned =>
        \A c \in CoeffNames :
            /\ Serialized[c] <= user.coefficients[c]
            /\ user.coefficients[c] <= before.coefficients[c]
            /\ Events(c) > 0 => user.coefficients[c] < before.coefficients[c]

C12_Witness ==
    /\ BothReturned
    /\ \E c \in CoeffNames : user.coefficients[c] > Serialized[c]

-----------------------------------------------------------------------------
(* scraper.py: parse_time.  A text is a sequence of one-character strings; *)
(* re.search is computed on it.                                            *)

Digits == <<"0", "1", "2", "3", "4", "5", "6", "7", "8", "9">>

\* \d
IsDigit(c) == c \in Range(Digits)

DigitValue(c) == (CHOOSE d \in 1..Len(Digits) : Digits[d] = c) - 1

\* int(group)
RECURSIVE int(_)
int(ds) ==
    IF ds = <<>> THEN 0
    ELSE int(SubSeq(ds, 1, Len(ds) - 1)) * Len(Digits) + DigitValue(ds[Len(ds)])

\* where the digits that begin at i end: \d+ is greedy, and what must follow
\* it is never a digit
RunEnd(s, i) ==
    CHOOSE j \in i..Len(s) :
        /\ \A k \in i..j : IsDigit(s[k])
        /\ j = Len(s) \/ ~IsDigit(s[j + 1])

\* after the digits that end at j: \s* (when the pattern has it), then one of
\* the letters
Follows(s, j, letters, spaces) ==
    \E k \in (j + 1)..Len(s) :
        /\ s[k] \in letters
        /\ \A m \in (j + 1)..(k - 1) : spaces /\ s[m] = " "

\* the positions where (\d+)\s*x matches
Starts(s, letters, spaces) ==
    {i \in 1..Len(s) : IsDigit(s[i]) /\ Follows(s, RunEnd(s, i), letters, spaces)}

\* re.search(...) is not None
Matches(s, letters, spaces) == Starts(s, letters, spaces) # {}

\* int(re.search(...).group(1)): the leftmost match
Group(s, letters, spaces) ==
    LET i == CHOOSE a \in Starts(s, letters, spaces) :
                 \A b \in Starts(s, letters, spaces) : a <= b
    IN  int(SubSeq(s, i, RunEnd(s, i)))

\* The exception parse_time raises, or "none": .group(1) of a search that
\* found nothing (lines 46 and 49).
parse_time_raises(time_str) ==
    IF time_str = <<>> THEN "none"
    ELSE IF Contains(time_str, <<"P", "T">>)
    THEN IF \/ "H" \in Range(time_str) /\ ~Matches(time_str, {"H"}, FALSE)
            \/ "M" \in Range(time_str) /\ ~Matches(time_str, {"M"}, FALSE)
         THEN "AttributeError"
         ELSE "none"
    ELSE "none"

\* parse_time, when it does not raise: minutes
parse_time(time_str) ==
    IF time_str = <<>> THEN 0
    ELSE IF Contains(time_str, <<"P", "T">>)
    THEN (IF "H" \in Range(time_str) THEN Group(time_str, {"H"}, FALSE) * 60 ELSE 0)
         + (IF "M" \in Range(time_str) THEN Group(time_str, {"M"}, FALSE) ELSE 0)
    ELSE (IF Matches(time_str, {"h", "H"}, TRUE)
          THEN Group(time_str, {"h", "H"}, TRUE) * 60 ELSE 0)
         + (IF Matches(time_str, {"m", "M"}, TRUE)
            THEN Group(time_str, {"m", "M"}, TRUE) ELSE 0)

-----------------------------------------------------------------------------
(* SpecParse: one call of parse_time on a text *)

MaxText == 3

TimeAlphabet == {"P", "T", "H", "M", "h", "m", "1", "3", " "}

\* "PT1H30M"
IsoNinety == <<"P", "T", "1", "H", "3", "0", "M">>

\* "1 hour 30 minutes"
PlainNinety ==
    <<"1", " ", "h", "o", "u", "r", " ", "3", "0", " ",
      "m", "i", "n", "u", "t", "e", "s">>

TimeTexts ==
    UNION {[1..n -> TimeAlphabet] : n \in 0..MaxText} \cup {IsoNinety, PlainNinety}

InitParse ==
    /\ recipes = <<>>
    /\ user = NewUser
    /\ now = 0
    /\ out \in {[op |-> "input", text |-> t] : t \in TimeTexts}
    /\ before = user
    /\ crashed = FALSE
    /\ cast = 0
    /\ history = <<>>
    /\ procs = <<>>
    /\ db = <<>>

ParseTime ==
    /\ out.op = "input"
    /\ out' = [op |-> "parse_time",
               text |-> out.text,
               raised |-> parse_time_raises(out.text),
               minutes |-> IF parse_time_raises(out.text) = "none"
                           THEN parse_time(out.text) ELSE 0]
    /\ UNCHANGED <<recipes, user, now, before, crashed, cast, history, procs, db>>

NextParse == ParseTime

SpecParse == InitParse /\ [][NextParse]_vars

-----------------------------------------------------------------------------
(* Claims about parse_time *)

Parsed == out.op = "parse_time"

\* the text names neither hours nor minutes: no number stands before an
\* h or an m
NoDuration(s) ==
    /\ ~Matches(s, {"h", "H"}, TRUE)
    /\ ~Matches(s, {"m", "M"}, TRUE)

\* C16: parse_time is total.  For every text it returns a number of minutes
\* that is not negative and raises nothing; "PT1H30M" and "1 hour 30 minutes"
\* give 90; a text with neither an hours nor a minutes match, or an empty
\* one, gives 0.
C16_ParseTimeTotal ==
    Parsed =>
        /\ out.raised = "none"
        /\ out.minutes >= 0
        /\ out.text \in {IsoNinety, PlainNinety} => out.minutes = 90
        /\ NoDuration(out.text) => out.minutes = 0

-----------------------------------------------------------------------------
(* scraper.py: clean_text, extract_recipe_data, scrape_recipe.  A JSON     *)
(* object is a record whose fields are Absent or Some(value); the word     *)
(* "Advertisement" is one element of a text.                               *)

Absent == [has |-> FALSE]

Some(v) == [has |-> TRUE, val |-> v]

\* dict.get(key, default)
Get(field, default) == IF field.has THEN field.val ELSE default

\* str.strip()
RECURSIVE strip(_)
strip(s) ==
    IF s = <<>> THEN s
    ELSE IF Head(s) = " " THEN strip(Tail(s))
    ELSE IF s[Len(s)] = " " THEN strip(SubSeq(s, 1, Len(s) - 1))
    ELSE s

\* re.sub(r"\s+", " ", s)
RECURSIVE squeeze(_)
squeeze(s) ==
    IF Len(s) < 2 THEN s
    ELSE IF s[1] = " " /\ s[2] = " " THEN squeeze(Tail(s))
    ELSE <<s[1]>> \o squeeze(Tail(s))

\* str.replace("Advertisement", "")
NoAds(s) == SelectSeq(s, LAMBDA c : c # "Advertisement")

\* clean_text
clean_text(text) == NoAds(squeeze(strip(text)))

\* data.get("name", "Unknown Recipe")
UnknownRecipe ==
    <<"U", "n", "k", "n", "o", "w", "n", " ", "R", "e", "c", "i", "p", "e">>

DefaultYield == 4

\* next((item for item in data if item.get("@type") == "Recipe"), None), as
\* the position of the item, 0 for None
FirstRecipe(data) ==
    IF \E i \in 1..Len(data) : data[i].type = "Recipe"
    THEN CHOOSE i \in 1..Len(data) :
            /\ data[i].type = "Recipe"
            /\ \A j \in 1..(i - 1) : data[j].type # "Recipe"
    ELSE 0

\* The exception extract_recipe_data raises, or "none": step["text"] of an
\* instruction object without "text", then parse_time of prepTime and
\* cookTime.  An instruction is Some(text), a string or an object with
\* "text", or Absent, an object without.
extract_raises(data) ==
    IF FirstRecipe(data) = 0 THEN "none"
    ELSE LET item == data[FirstRecipe(data)]
             stps == Get(item.recipeInstructions, <<>>)
         IN  IF \E i \in 1..Len(stps) : ~stps[i].has
             THEN "KeyError"
             ELSE IF parse_time_raises(Get(item.prepTime, <<>>)) # "none"
             THEN parse_time_raises(Get(item.prepTime, <<>>))
             ELSE parse_time_raises(Get(item.cookTime, <<>>))

\* Mutant: an object without ingredients or steps is no recipe.
extract_recipe_data_Strict(data) ==
    IF FirstRecipe(data) = 0 THEN [found |-> FALSE]
    ELSE LET item == data[FirstRecipe(data)]
             ings == Get(item.recipeIngredient, <<>>)
             stps == Get(item.recipeInstructions, <<>>)
         IN  IF ings = <<>> \/ stps = <<>> \/ Get(item.recipeYield, DefaultYield) < 1
                \/ clean_text(Get(item.name, UnknownRecipe)) = <<>>
             THEN [found |-> FALSE]
             ELSE [found |-> TRUE,
                   name |-> clean_text(Get(item.name, UnknownRecipe)),
                   ingredients |-> [i \in 1..Len(ings) |-> clean_text(ings[i])],
                   steps |-> [i \in 1..Len(stps) |-> clean_text(stps[i].val)],
                   prep_time |-> parse_time(Get(item.prepTime, <<>>)),
                   cook_time |-> parse_time(Get(item.cookTime, <<>>)),
                   servings |-> Get(item.recipeYield, DefaultYield)]

\* extract_recipe_data, when it does not raise; data is the list of objects
\* of one script (a single object is a list of one)
extract_recipe_data(data) ==
    IF FirstRecipe(data) = 0 THEN [found |-> FALSE]
    ELSE LET item == data[FirstRecipe(data)]
             ings == Get(item.recipeIngredient, <<>>)
             stps == Get(item.recipeInstructions, <<>>)
         IN  [found |-> TRUE,
              name |-> clean_text(Get(item.name, UnknownRecipe)),
              ingredients |-> [i \in 1..Len(ings) |-> clean_text(ings[i])],
              steps |-> [i \in 1..Len(stps) |-> clean_text(stps[i].val)],
              prep_time |-> parse_time(Get(item.prepTime, <<>>)),
              cook_time |-> parse_time(Get(item.cookTime, <<>>)),
              servings |-> Get(item.recipeYield, DefaultYield)]

\* The JSON-LD loop of scrape_recipe (lines 94-109).  A script that does not
\* parse, or whose extraction raises AttributeError, is skipped with a
\* warning; KeyError is not caught; the first Recipe object found returns.
Skipped(script) ==
    \/ ~script.loads
    \/ extract_raises(script.data) = "AttributeError"
    \/ extract_raises(script.data) = "none" /\ ~extract_recipe_data(script.data).found

\* the script at which the loop ends, 0 when every script is skipped
LoopEnd(scripts) ==
    IF \E i \in 1..Len(scripts) : ~Skipped(scripts[i])
    THEN CHOOSE i \in 1..Len(scripts) :
            /\ ~Skipped(scripts[i])
            /\ \A j \in 1..(i - 1) : Skipped(scripts[j])
    ELSE 0

\* re.search(r"(\d+)", text): the first number of a text, as an integer
FirstNumber(text) ==
    LET i == CHOOSE a \in 1..Len(text) :
                 IsDigit(text[a]) /\ \A b \in 1..(a - 1) : ~IsDigit(text[b])
    IN  int(SubSeq(text, i, RunEnd(text, i)))

HasNumber(text) == \E i \in 1..Len(text) : IsDigit(text[i])

\* servings of the HTML fallback (lines 197-206): 4, or the first number of
\* the first servings text that holds one
RECURSIVE html_servings(_)
html_servings(texts) ==
    IF texts = <<>> THEN DefaultYield
    ELSE IF HasNumber(Head(texts)) THEN FirstNumber(Head(texts))
    ELSE html_servings(Tail(texts))

\* prep_time and cook_time of the HTML fallback (lines 185-194): every text
\* that mentions a time is parsed in lower case, a later one overwrites
RECURSIVE html_times(_, _)
html_times(texts, sofar) ==
    IF texts = <<>> THEN sofar
    ELSE LET text == lower(Head(texts))
         IN  html_times(Tail(texts),
                 IF Contains(text, <<"p", "r", "e", "p">>)
                 THEN [sofar EXCEPT !.prep = parse_time(text)]
                 ELSE IF Contains(text, <<"c", "o", "o", "k">>)
                 THEN [sofar EXCEPT !.cook = parse_time(text)]
                 ELSE sofar)

\* [i for i in lines if i and len(i) > 1 and not i.isspace()]
Kept(lines) ==
    SelectSeq([i \in 1..Len(lines) |-> clean_text(lines[i])],
              LAMBDA i : Len(i) > 1 /\ \E k \in 1..Len(i) : i[k] # " ")

\* The HTML fallback of scrape_recipe (lines 112-208); soup holds the texts
\* the find and find_all calls return.
html_fallback(soup) ==
    LET name == IF soup.title.has THEN clean_text(soup.title.val) ELSE <<>>
        times == html_times(soup.times, [prep |-> 0, cook |-> 0])
    IN  IF name = <<>> THEN [found |-> FALSE]
        ELSE IF Kept(soup.ingredients) = <<>> \/ Kept(soup.steps) = <<>>
        THEN [found |-> FALSE]
        ELSE [found |-> TRUE,
              name |-> name,
              ingredients |-> Kept(soup.ingredients),
              steps |-> Kept(soup.steps),
              prep_time |-> times.prep,
              cook_time |-> times.cook,
              servings |-> html_servings(soup.servings)]

\* The exception scrape_recipe lets through, or "none"
scrape_raises(page) ==
    IF ~page.fetched \/ LoopEnd(page.scripts) = 0 THEN "none"
    ELSE extract_raises(page.scripts[LoopEnd(page.scripts)].data)

\* scrape_recipe, when it does not raise: the fields Recipe(...) is built
\* from, or found = FALSE for None
scrape_recipe(page) ==
    IF ~page.fetched THEN [found |-> FALSE]
    ELSE IF LoopEnd(page.scripts) # 0
    THEN extract_recipe_data(page.scripts[LoopEnd(page.scripts)].data)
    ELSE html_fallback(page.soup)

-----------------------------------------------------------------------------
(* SpecCreate: the ways a Recipe enters the list `recipes` of cli.py: Add   *)
(* Recipe, Add from URL (JSON-LD or the HTML fallback) and Edit Recipe.     *)

Pie == <<"p", "i", "e">>

Egg == <<"e", "g", "g">>

Mix == <<"m", "i", "x">>

\* the objects a script of type application/ld+json can hold: a complete
\* one, and the same with one field missing or malformed
JsonBase ==
    [type |-> "Recipe", name |-> Some(Pie), recipeIngredient |-> Some(<<Egg>>),
     recipeInstructions |-> Some(<<Some(Mix)>>), prepTime |-> Some(IsoNinety),
     cookTime |-> Absent, recipeYield |-> Some(2)]

JsonItems ==
    {JsonBase,
     [JsonBase EXCEPT !.type = "Article"],
     [JsonBase EXCEPT !.name = Absent],
     [JsonBase EXCEPT !.name = Some(<<" ">>)],
     [JsonBase EXCEPT !.recipeIngredient = Absent],
     [JsonBase EXCEPT !.recipeInstructions = Absent],
     [JsonBase EXCEPT !.recipeInstructions = Some(<<Absent>>)],
     [JsonBase EXCEPT !.prepTime = Some(<<"P", "T", "M">>)],
     [JsonBase EXCEPT !.recipeYield = Absent],
     [JsonBase EXCEPT !.recipeYield = Some(0)]}

\* what the find and find_all calls of the fallback return for a page
SoupBase ==
    [title |-> Some(Pie),
     ingredients |-> <<Egg, <<"Advertisement">>, <<" ", "o", "i", "l">>>>,
     steps |-> <<Mix>>,
     times |-> << <<"P", "r", "e", "p", " ", "1", " ", "h">>,
                  <<"c", "o", "o", "k", " ", "3", "0", " ", "m">> >>,
     servings |-> << <<"n", "o">>, <<"2">> >>]

Soups ==
    {SoupBase,
     [SoupBase EXCEPT !.title = Absent],
     [SoupBase EXCEPT !.ingredients = << <<"x">> >>],
     [SoupBase EXCEPT !.servings = <<>>],
     [SoupBase EXCEPT !.servings = << <<"0">> >>]}

Pages ==
    {[fetched |-> TRUE, scripts |-> <<[loads |-> TRUE, data |-> <<item>>]>>,
      soup |-> SoupBase] : item \in JsonItems}
    \cup {[fetched |-> TRUE, scripts |-> <<>>, soup |-> soup] : soup \in Soups}
    \cup {[fetched |-> f, scripts |-> <<[loads |-> FALSE, data |-> <<>>]>>,
           soup |-> SoupBase] : f \in BOOLEAN}

\* the page names no ingredient or no step: nothing is left after trimming
EmptyInput(page) ==
    IF ~page.fetched THEN TRUE
    ELSE IF LoopEnd(page.scripts) # 0
    THEN LET item == page.scripts[LoopEnd(page.scripts)].data[1]
         IN  \/ Get(item.recipeIngredient, <<>>) = <<>>
             \/ Get(item.recipeInstructions, <<>>) = <<>>
    ELSE Kept(page.soup.ingredients) = <<>> \/ Kept(page.soup.steps) = <<>>

\* add_recipe_from_url: choice 7.  KeyError leaves main().
AddFromUrl ==
    \E page \in Pages :
        LET raised == scrape_raises(page)
            got == scrape_recipe(page)
            added == raised = "none" /\ got.found
        IN  /\ ~crashed
            /\ Len(recipes) < MaxRecipes
            /\ recipes' = IF added
                          THEN Append(recipes,
                                      Recipe(got.name, got.ingredients, got.steps,
                                             got.prep_time, got.cook_time, got.servings))
                          ELSE recipes
            /\ crashed' = (raised # "none")
            /\ out' = [op |-> "add_recipe_from_url", raised |-> raised,
                       added |-> added, empty |-> EmptyInput(page)]
            /\ UNCHANGED <<user, now, before, cast, history, procs, db>>

NextCreate == AddRecipe \/ AddFromUrl \/ EditRecipe

SpecCreate == Init /\ [][NextCreate]_vars

-----------------------------------------------------------------------------
(* Claims about the recipes of the list *)

WellFormed(r) ==
    /\ Len(r.name) >= 1
    /\ Len(r.ingredients) >= 1
    /\ Len(r.steps) >= 1
    /\ r.servings >= 1

\* C13: every Recipe that enters the list by any creation path has a name
\* that is not empty, at least one ingredient, at least one step and
\* servings >= 1; an input whose ingredients or steps are empty is rejected
\* and produces no Recipe.
C13_RecipeInvariant ==
    /\ \A i \in 1..Len(recipes) : WellFormed(recipes[i])
    /\ (out.op = "add_recipe_from_url" /\ out.empty) => ~out.added

-----------------------------------------------------------------------------
(* services/scraping/cooking_data.py *)

\* ALL_INGREDIENTS: INGREDIENTS flattened
ALL_INGREDIENTS ==
    {<<"a", "l", "l", "-", "p", "u", "r", "p", "o", "s", "e", " ", "f", "l", "o", "u", "r">>,
     <<"b", "r", "e", "a", "d", " ", "f", "l", "o", "u", "r">>,
     <<"c", "a", "k", "e", " ", "f", "l", "o", "u", "r">>,
     <<"w", "h", "o", "l", "e", " ", "w", "h", "e", "a", "t", " ", "f", "l", "o", "u", "r">>,
     <<"s", "e", "l", "f", "-", "r", "i", "s", "i", "n", "g", " ", "f", "l", "o", "u", "r">>,
     <<"w", "h", "i", "t", "e", " ", "r", "i", "c", "e">>,
     <<"b", "r", "o", "w", "n", " ", "r", "i", "c", "e">>,
     <<"j", "a", "s", "m", "i", "n", "e", " ", "r", "i", "c", "e">>,
     <<"b", "a", "s", "m", "a", "t", "i", " ", "r", "i", "c", "e">>,
     <<"a", "r", "b", "o", "r", "i", "o", " ", "r", "i", "c", "e">>,
     <<"s", "p", "a", "g", "h", "e", "t", "t", "i">>,
     <<"p", "e", "n", "n", "e">>,
     <<"f", "e", "t", "t", "u", "c", "c", "i", "n", "e">>,
     <<"l", "i", "n", "g", "u", "i", "n", "e">>,
     <<"m", "a", "c", "a", "r", "o", "n", "i">>,
     <<"q", "u", "i", "n", "o", "a">>,
     <<"o", "a", "t", "s">>,
     <<"c", "o", "r", "n", "m", "e", "a", "l">>,
     <<"b", "r", "e", "a", "d", "c", "r", "u", "m", "b", "s">>,
     <<"w", "h", "o", "l", "e", " ", "m", "i", "l", "k">>,
     <<"s", "k", "i", "m", " ", "m", "i", "l", "k">>,
     <<"2", "%", " ", "m", "i", "l", "k">>,
     <<"b", "u", "t", "t", "e", "r", "m", "i", "l", "k">>,
     <<"h", "e", "a", "v", "y", " ", "c", "r", "e", "a", "m">>,
     <<"h", "a", "l", "f", "-", "a", "n", "d", "-", "h", "a", "l", "f">>,
     <<"c", "h", "e", "d", "d", "a", "r">>,
     <<"m", "o", "z", "z", "a", "r", "e", "l", "l", "a">>,
     <<"p", "a", "r", "m", "e", "s", "a", "n">>,
     <<"c", "r", "e", "a", "m", " ", "c", "h", "e", "e", "s", "e">>,
     <<"r", "i", "c", "o", "t", "t", "a">>,
     <<"b", "u", "t", "t", "e", "r">>,
     <<"y", "o", "g", "u", "r", "t">>,
     <<"s", "o", "u", "r", " ", "c", "r", "e", "a", "m">>,
     <<"e", "g", "g", "s">>,
     <<"c", "h", "i", "c", "k", "e", "n">>,
     <<"b", "e", "e", "f">>,
     <<"p", "o", "r", "k">>,
     <<"t", "u", "r", "k", "e", "y">>,
     <<"l", "a", "m", "b">>,
     <<"s", "a", "l", "m", "o", "n">>,
     <<"t", "u", "n", "a">>,
     <<"s", "h", "r", "i", "m", "p">>,
     <<"c", "o", "d">>,
     <<"t", "i", "l", "a", "p", "i", "a">>,
     <<"t", "o", "f", "u">>,
     <<"t", "e", "m", "p", "e", "h">>,
     <<"s", "e", "i", "t", "a", "n">>,
     <<"l", "e", "n", "t", "i", "l", "s">>,
     <<"c", "h", "i", "c", "k", "p", "e", "a", "s">>,
     <<"o", "n", "i", "o", "n">>,
     <<"g", "a", "r", "l", "i", "c">>,
     <<"c", "a", "r", "r", "o", "t">>,
     <<"c", "e", "l", "e", "r", "y">>,
     <<"b", "e", "l", "l", " ", "p", "e", "p", "p", "e", "r">>,
     <<"t", "o", "m", "a", "t", "o">>,
     <<"p", "o", "t", "a", "t", "o">>,
     <<"b", "r", "o", "c", "c", "o", "l", "i">>,
     <<"s", "p", "i", "n", "a", "c", "h">>,
     <<"l", "e", "t", "t", "u", "c", "e">>,
     <<"c", "u", "c", "u", "m", "b", "e", "r">>,
     <<"z", "u", "c", "c", "h", "i", "n", "i">>,
     <<"a", "p", "p", "l", "e">>,
     <<"b", "a", "n", "a", "n", "a">>,
     <<"o", "r", "a", "n", "g", "e">>,
     <<"l", "e", "m", "o", "n">>,
     <<"l", "i", "m", "e">>,
     <<"s", "t", "r", "a", "w", "b", "e", "r", "r", "y">>,
     <<"b", "l", "u", "e", "b", "e", "r", "r", "y">>,
     <<"r", "a", "s", "p", "b", "e", "r", "r", "y">>,
     <<"g", "r", "a", "p", "e">>,
     <<"p", "i", "n", "e", "a", "p", "p", "l", "e">>,
     <<"m", "a", "n", "g", "o">>,
     <<"a", "v", "o", "c", "a", "d", "o">>,
     <<"b", "a", "s", "i", "l">>,
     <<"p", "a", "r", "s", "l", "e", "y">>,
     <<"c", "i", "l", "a", "n", "t", "r", "o">>,
     <<"t", "h", "y", "m", "e">>,
     <<"r", "o", "s", "e", "m", "a", "r", "y">>,
     <<"o", "r", "e", "g", "a", "n", "o">>,
     <<"m", "i", "n", "t">>}

\* ALL_EQUIPMENT
ALL_EQUIPMENT ==
    {<<"o", "v", "e", "n">>,
     <<"s", "t", "o", "v", "e">>,
     <<"m", "i", "c", "r", "o", "w", "a", "v", "e">>,
     <<"b", "l", "e", "n", "d", "e", "r">>,
     <<"f", "o", "o", "d", " ", "p", "r", "o", "c", "e", "s", "s", "o", "r">>,
     <<"m", "i", "x", "e", "r">>,
     <<"k", "n", "i", "f", "e">>,
     <<"c", "u", "t", "t", "i", "n", "g", " ", "b", "o", "a", "r", "d">>,
     <<"m", "e", "a", "s", "u", "r", "i", "n", "g", " ", "c", "u", "p", "s">>,
     <<"m", "e", "a", "s", "u", "r", "i", "n", "g", " ", "s", "p", "o", "o", "n", "s">>,
     <<"p", "o", "t">>,
     <<"p", "a", "n">>,
     <<"b", "a", "k", "i", "n", "g", " ", "s", "h", "e", "e", "t">>,
     <<"b", "a", "k", "i", "n", "g", " ", "d", "i", "s", "h">>,
     <<"b", "o", "w", "l">>,
     <<"w", "h", "i", "s", "k">>,
     <<"s", "p", "a", "t", "u", "l", "a">>,
     <<"s", "p", "o", "o", "n">>,
     <<"c", "o", "l", "a", "n", "d", "e", "r">>,
     <<"g", "r", "a", "t", "e", "r">>}

\* ALL_COOKING_METHODS
ALL_COOKING_METHODS ==
    {<<"b", "a", "k", "e">>,
     <<"b", "r", "o", "i", "l">>,
     <<"g", "r", "i", "l", "l">>,
     <<"r", "o", "a", "s", "t">>,
     <<"f", "r", "y">>,
     <<"s", "a", "u", "t", "é">>,
     <<"s", "i", "m", "m", "e", "r">>,
     <<"b", "o", "i", "l">>,
     <<"s", "t", "e", "a", "m">>,
     <<"p", "o", "a", "c", "h">>,
     <<"b", "r", "a", "i", "s", "e">>,
     <<"s", "t", "i", "r", "-", "f", "r", "y">>,
     <<"d", "e", "e", "p", "-", "f", "r", "y">>,
     <<"b", "l", "a", "n", "c", "h">>,
     <<"r", "e", "d", "u", "c", "e">>}

\* TEMPERATURE_RANGES, as (low, high) pairs
TEMPERATURE_RANGES ==
    {<<170, 250>>, <<251, 300>>, <<301, 375>>, <<376, 450>>, <<451, 550>>}

\* is_valid_temperature
is_valid_temperature(temp) ==
    \E range \in TEMPERATURE_RANGES : range[1] <= temp /\ temp <= range[2]

\* is_valid_time(minutes): one parameter
is_valid_time(minutes) == 0 < minutes /\ minutes < 1440

\* is_valid_serving_size
is_valid_serving_size(servings) == 1 <= servings /\ servings <= 100

-----------------------------------------------------------------------------
(* services/scraping/recipe_quality.py: RecipeQualityAnalyzer.  A score is  *)
(* the exact fraction <<numerator, denominator>>; an Optional field is      *)
(* Absent (None) or Some(value).                                            *)

\* x is not None and x != 0
Truthy(x) == x.has /\ x.val # 0

LeqOne(score) == score[1] <= score[2]

AtLeastZero(score) == score[1] >= 0 /\ score[2] > 0

IsZeroScore(score) == score[1] = 0

\* any(word in text for word in words)
Mentions(text, words) == \E w \in words : Contains(text, w)

\* weights = {"title": 0.1, "ingredients": 0.4, "instructions": 0.4,
\* "yields": 0.1}, and min(1.0, len / 3): in thirtieths
check_completeness(recipe) ==
    <<(IF recipe.title # <<>> THEN 3 ELSE 0)
      + 4 * Min(3, Len(recipe.ingredients))
      + 4 * Min(3, Len(recipe.instructions))
      + (IF recipe.yields.has THEN 3 ELSE 0),
      30>>

TimeWords ==
    {<<"m", "i", "n", "u", "t", "e">>, <<"h", "o", "u", "r">>,
     <<"u", "n", "t", "i", "l">>, <<"w", "h", "e", "n">>}

\* has_method + has_timing + has_equipment of one instruction; an empty
\* text is passed over
step_points(instruction) ==
    LET text == lower(instruction.text)
        Point(b) == IF b THEN 1 ELSE 0
    IN  IF text = <<>> THEN 0
        ELSE Point(Mentions(text, ALL_COOKING_METHODS))
             + Point(instruction.duration.has \/ Mentions(text, TimeWords))
             + Point(instruction.equipment # <<>> \/ Mentions(text, ALL_EQUIPMENT))

\* Mutant: the step score is not divided by its three parts.
check_instruction_clarity_NoThird(recipe) ==
    IF recipe.instructions = <<>> THEN <<0, 1>>
    ELSE LET total == SumSeq([i \in 1..Len(recipe.instructions) |->
                                 step_points(recipe.instructions[i])])
         IN  <<total, Len(recipe.instructions)>>

\* _check_instruction_clarity: min(1.0, total_score / len(instructions))
check_instruction_clarity(recipe) ==
    IF recipe.instructions = <<>> THEN <<0, 1>>
    ELSE LET total == SumSeq([i \in 1..Len(recipe.instructions) |->
                                 step_points(recipe.instructions[i])])
         IN  <<Min(total, 3 * Len(recipe.instructions)), 3 * Len(recipe.instructions)>>

\* name_valid and measurement_valid; normalize_unit never returns None
ingredient_valid(ingredient) ==
    /\ Mentions(lower(ingredient.name), ALL_INGREDIENTS)
    /\ ingredient.amount.has
    /\ ingredient.unit.has

\* _check_ingredient_validity
check_ingredient_validity(recipe) ==
    IF recipe.ingredients = <<>> THEN <<0, 1>>
    ELSE <<Cardinality({i \in 1..Len(recipe.ingredients) :
                           ingredient_valid(recipe.ingredients[i])}),
           Len(recipe.ingredients)>>

\* The exception _check_timing_validity raises, or "none".  Past the first
\* return, prep_time or cook_time is set, and the first
\* is_valid_time(minutes, "prep" or "cook") passes two arguments to a
\* function of one (cooking_data.py line 167).
check_timing_raises(recipe) ==
    IF ~Truthy(recipe.prep_time) /\ ~Truthy(recipe.cook_time) THEN "none"
    ELSE "TypeError"

\* _check_timing_validity, when it does not raise: the first return
check_timing_validity(recipe) == <<0, 1>>

Letters ==
    {"a", "b", "c", "d", "e", "f", "g", "h", "i", "j", "k", "l", "m",
     "n", "o", "p", "q", "r", "s", "t", "u", "v", "w", "x", "y", "z"}

\* \w
IsWordChar(c) == c \in Letters \/ IsDigit(c) \/ c = "_"

\* after the digits that end at j: \s*, then "degree", a degree sign (of
\* the three the pattern lists, the one the texts here can hold), or f or c
\* at a word boundary
DegreesFollow(s, j) ==
    \E k \in (j + 1)..Len(s) :
        /\ \A m \in (j + 1)..(k - 1) : s[m] = " "
        /\ \/ k + 5 <= Len(s) /\ SubSeq(s, k, k + 5) = <<"d", "e", "g", "r", "e", "e">>
           \/ s[k] = "°"
           \/ s[k] \in {"f", "c"} /\ (k = Len(s) \/ ~IsWordChar(s[k + 1]))

\* re.findall(...): the numbers a text gives as temperatures, by the
\* position where each begins
TempStarts(s) ==
    {i \in 1..Len(s) :
        /\ IsDigit(s[i])
        /\ i = 1 \/ ~IsDigit(s[i - 1])
        /\ DegreesFollow(s, RunEnd(s, i))}

\* temp_mentions and valid_temps of one instruction
temp_counts(instruction) ==
    IF instruction.temperature.has
    THEN <<IF is_valid_temperature(instruction.temperature.val) THEN 1 ELSE 0, 1>>
    ELSE LET text == lower(instruction.text)
             TempAt(i) == int(SubSeq(text, i, RunEnd(text, i)))
         IN  <<Cardinality({i \in TempStarts(text) : is_valid_temperature(TempAt(i))}),
               Cardinality(TempStarts(text))>>

\* _check_temperature_validity
check_temperature_validity(recipe) ==
    LET counts == [i \in 1..Len(recipe.instructions) |->
                      temp_counts(recipe.instructions[i])]
        valid_temps == SumSeq([i \in 1..Len(counts) |-> counts[i][1]])
        temp_mentions == SumSeq([i \in 1..Len(counts) |-> counts[i][2]])
    IN  IF temp_mentions > 0 THEN <<valid_temps, temp_mentions>> ELSE <<1, 1>>

\* _check_portion_consistency: expected_ing_per_serving = 2, so the bounds
\* are 0.5 * 2 and 3 * 2 ingredients per serving
check_portion_consistency(recipe) ==
    IF ~recipe.yields.has THEN <<0, 1>>
    ELSE IF ~is_valid_serving_size(recipe.yields.val) THEN <<0, 1>>
    ELSE IF Len(recipe.ingredients) < 1 * recipe.yields.val THEN <<1, 2>>
    ELSE IF Len(recipe.ingredients) > 6 * recipe.yields.val THEN <<1, 2>>
    ELSE <<1, 1>>

\* The exception analyze_recipe raises, or "none"
analyze_raises(recipe) == check_timing_raises(recipe)

\* the weights of analyze_recipe, in hundredths
QualityWeights == <<25, 25, 20, 10, 10, 10>>

\* the six sub-scores in the order analyze_recipe computes them
SubScores(recipe) ==
    <<check_completeness(recipe), check_instruction_clarity(recipe),
      check_ingredient_validity(recipe), check_timing_validity(recipe),
      check_temperature_validity(recipe), check_portion_consistency(recipe)>>

\* the product of the denominators of the scores, but the k-th
RECURSIVE OtherDens(_, _)
OtherDens(scores, k) ==
    IF scores = <<>> THEN 1
    ELSE (IF k = 1 THEN 1 ELSE Head(scores)[2]) * OtherDens(Tail(scores), k - 1)

\* overall_quality: the weighted sum, over one denominator
overall_quality(scores) ==
    <<SumSeq([k \in 1..Len(scores) |->
                QualityWeights[k] * scores[k][1] * OtherDens(scores, k)]),
      100 * OtherDens(scores, 0)>>

\* analyze_recipe, when it does not raise
analyze_recipe(recipe) ==
    [scores |-> SubScores(recipe), overall_quality |-> overall_quality(SubScores(recipe))]

-----------------------------------------------------------------------------
(* SpecQuality: one call of RecipeQualityAnalyzer.analyze_recipe *)

Ingredient(name, amount, unit) == [name |-> name, amount |-> amount, unit |-> unit]

Instruction(text, duration, temperature, equipment) ==
    [text |-> text, duration |-> duration, temperature |-> temperature,
     equipment |-> equipment]

\* "2 eggs", with amount and unit
Eggs == Ingredient(<<"2", " ", "E", "g", "g", "s">>, Some(2), Some(<<"c">>))

\* "eggs", the amount not parsed
BareEggs == Ingredient(<<"e", "g", "g", "s">>, Absent, Absent)

\* an ingredient the knowledge base does not know
Moss == Ingredient(<<"m", "o", "s", "s">>, Some(1), Some(<<"g">>))

\* "bake 9 minute at 350 f"
BakeStep ==
    Instruction(<<"b", "a", "k", "e", " ", "9", " ", "m", "i", "n", "u", "t", "e",
                  " ", "a", "t", " ", "3", "5", "0", " ", "f">>,
                Absent, Absent, <<>>)

\* "99 degrees, 2 cups", in a pan, for a set time
WarmStep ==
    Instruction(<<"9", "9", " ", "d", "e", "g", "r", "e", "e", "s", ",", " ",
                  "2", " ", "c", "u", "p", "s">>,
                Some(5), Absent, <<"pan">>)

\* no text, the oven too hot
HotStep == Instruction(<<>>, Absent, Some(900), <<>>)

IngredientLists ==
    {<<>>, <<Eggs>>, <<Eggs, BareEggs, Moss>>, <<Eggs, Eggs, Eggs, Eggs, Eggs, Eggs, Eggs>>}

InstructionLists ==
    {<<>>, <<BakeStep>>, <<WarmStep, HotStep>>, <<BakeStep, BakeStep, WarmStep, BakeStep>>}

QualityRecipes ==
    {[title |-> t, ingredients |-> i, instructions |-> n, yields |-> y,
      prep_time |-> p, cook_time |-> c, total_time |-> tt] :
        t \in {<<>>, Pie},
        i \in IngredientLists,
        n \in InstructionLists,
        y \in {Absent, Some(0), Some(1), Some(4)},
        p \in {Absent, Some(0), Some(30)},
        c \in {Absent, Some(45)},
        tt \in {Absent, Some(75)}}

InitQuality ==
    /\ recipes = <<>>
    /\ user = NewUser
    /\ now = 0
    /\ out \in {[op |-> "input", recipe |-> r] : r \in QualityRecipes}
    /\ before = user
    /\ crashed = FALSE
    /\ cast = 0
    /\ history = <<>>
    /\ procs = <<>>
    /\ db = <<>>

AnalyzeRecipe ==
    /\ out.op = "input"
    /\ out' = IF analyze_raises(out.recipe) = "none"
              THEN [op |-> "analyze_recipe", recipe |-> out.recipe,
                    raised |-> "none", metrics |-> analyze_recipe(out.recipe)]
              ELSE [op |-> "analyze_recipe", recipe |-> out.recipe,
                    raised |-> analyze_raises(out.recipe)]
    /\ UNCHANGED <<recipes, user, now, before, crashed, cast, history, procs, db>>

NextQuality == AnalyzeRecipe

SpecQuality == InitQuality /\ [][NextQuality]_vars

-----------------------------------------------------------------------------
(* Claims about analyze_recipe *)

Analyzed == out.op = "analyze_recipe"

InUnit(score) == AtLeastZero(score) /\ LeqOne(score)

\* C14: for every recipe analyze_recipe returns metrics whose overall score
\* and whose six sub-scores each lie in [0, 1].
C14_ScoresInUnit ==
    Analyzed =>
        /\ out.raised = "none"
        /\ InUnit(out.metrics.overall_quality)
        /\ \A k \in 1..Len(out.metrics.scores) : InUnit(out.metrics.scores[k])

\* the same, of the calls that return
C14_ReturnedInUnit ==
    (Analyzed /\ out.raised = "none") =>
        /\ InUnit(out.metrics.overall_quality)
        /\ \A k \in 1..Len(out.metrics.scores) : InUnit(out.metrics.scores[k])

\* C15: analyze_recipe never raises; whether prep time, cook time, total
\* time, yields, ingredients and instructions are present or missing, it
\* returns metrics, and a missing field lowers its sub-score to the floor.
C15_NeverRaises ==
    Analyzed =>
        /\ out.raised = "none"
        /\ out.recipe.ingredients = <<>> => IsZeroScore(out.metrics.scores[3])
        /\ out.recipe.instructions = <<>> => IsZeroScore(out.metrics.scores[2])
        /\ (~out.recipe.prep_time.has /\ ~out.recipe.cook_time.has)
               => IsZeroScore(out.metrics.scores[4])
        /\ ~out.recipe.yields.has => IsZeroScore(out.metrics.scores[6])

-----------------------------------------------------------------------------
(* value/calculator.py: ValueCalculator.  rating and complexity are in      *)
(* hundredths, times in minutes; a score is the exact fraction             *)
(* <<numerator, denominator>>.                                             *)

\* Recipe.get_total_time: (prep_time or 0) + (cook_time or 0)
get_total_time(recipe) ==
    (IF Truthy(recipe.prep_time) THEN recipe.prep_time.val ELSE 0)
    + (IF Truthy(recipe.cook_time) THEN recipe.cook_time.val ELSE 0)

\* _calculate_completeness: the fields that are not None, of four
filled_fields(recipe) ==
    Cardinality({k \in 1..4 :
        <<recipe.description, recipe.prep_time, recipe.cook_time, recipe.complexity>>[k].has})

\* Mutant: base_score * completeness without min(1.0, .)
calculate_quality_score_NoCap(recipe) ==
    IF ~Truthy(recipe.rating) THEN <<0, 1>>
    ELSE <<recipe.rating.val * filled_fields(recipe), 2000>>

\* calculate_quality_score: min(1.0, rating / 5.0 * (filled_fields / 4))
calculate_quality_score(recipe) ==
    IF ~Truthy(recipe.rating) THEN <<0, 1>>
    ELSE <<Min(2000, recipe.rating.val * filled_fields(recipe)), 2000>>

\* calculate_complexity_score: min(1.0, max(0.0, complexity))
calculate_complexity_score(recipe) ==
    IF ~Truthy(recipe.complexity) THEN <<0, 1>>
    ELSE <<Min(100, Max(0, recipe.complexity.val)), 100>>

\* calculate_time_value: 1.0 - min(1.0, total_time / 120)
calculate_time_value(recipe) ==
    IF get_total_time(recipe) = 0 THEN <<0, 1>>
    ELSE <<120 - Min(120, get_total_time(recipe)), 120>>

\* calculate_rating_impact: min(1.0, rating / 5.0 * (1.0 + time_factor))
calculate_rating_impact(recipe) ==
    IF ~Truthy(recipe.rating) THEN <<0, 1>>
    ELSE LET time_factor == calculate_time_value(recipe)
         IN  <<Min(500 * time_factor[2],
                   recipe.rating.val * (time_factor[2] + time_factor[1])),
               500 * time_factor[2]>>

-----------------------------------------------------------------------------
(* SpecCalc: the four scores of ValueCalculator on one recipe *)

\* rating and complexity as Recipe._update_metrics leaves them: unset, or an
\* average of votes from 0 to 6
Ratings == {Absent, Some(0), Some(120), Some(450), Some(600)}

Complexities == {Absent, Some(0), Some(50), Some(333)}

CalcRecipes ==
    {[description |-> d, rating |-> r, complexity |-> c, prep_time |-> p, cook_time |-> k] :
        d \in {Absent, Some(<<>>), Some(Pie)},
        r \in Ratings,
        c \in Complexities,
        p \in {Absent, Some(0), Some(30), Some(200)},
        k \in {Absent, Some(45)}}

InitCalc ==
    /\ recipes = <<>>
    /\ user = NewUser
    /\ now = 0
    /\ out \in {[op |-> "input", recipe |-> r] : r \in CalcRecipes}
    /\ before = user
    /\ crashed = FALSE
    /\ cast = 0
    /\ history = <<>>
    /\ procs = <<>>
    /\ db = <<>>

Calculate ==
    /\ out.op = "input"
    /\ out' = [op |-> "calculate", recipe |-> out.recipe,
               quality |-> calculate_quality_score(out.recipe),
               complexity |-> calculate_complexity_score(out.recipe),
               time_value |-> calculate_time_value(out.recipe),
               rating |-> calculate_rating_impact(out.recipe)]
    /\ UNCHANGED <<recipes, user, now, before, crashed, cast, history, procs, db>>

NextCalc == Calculate

SpecCalc == InitCalc /\ [][NextCalc]_vars

-----------------------------------------------------------------------------
(* Claims about ValueCalculator *)

Scored == out.op = "calculate"

\* C19: calculate_quality_score, calculate_complexity_score,
\* calculate_time_value and calculate_rating_impact each return a value in
\* [0.0, 1.0]; a missing rating gives quality and rating impact 0.0, a
\* missing complexity gives complexity score 0.0, missing times give time
\* value 0.0.
C19_ScoresInUnit ==
    Scored =>
        /\ InUnit(out.quality)
        /\ InUnit(out.complexity)
        /\ InUnit(out.time_value)
        /\ InUnit(out.rating)
        /\ ~out.recipe.rating.has =>
               IsZeroScore(out.quality) /\ IsZeroScore(out.rating)
        /\ ~out.recipe.complexity.has => IsZeroScore(out.complexity)
        /\ (~out.recipe.prep_time.has /\ ~out.recipe.cook_time.has) =>
               IsZeroScore(out.time_value)

\* C19 witness: a rating of 6.0 on a complete, quick recipe, where only the
\* cap keeps quality and rating impact at 1.0
C19_Witness ==
    /\ Scored
    /\ out.recipe.rating = Some(600)
    /\ filled_fields(out.recipe) = 4
    /\ out.quality = <<2000, 2000>>
    /\ out.rating[1] = out.rating[2]
    /\ out.time_value[1] > 0

\* C23: timing validity equals (checks passed) / (checks attempted), with a
\* range check attempted for each of prep and cook time that is present and
\* the |total - (prep + cook)| <= 10 check attempted only when prep, cook
\* and total are all present; the score is 0 when no check is attempted,
\* as when no timing field exists.
C23_TimingValidity ==
    Analyzed =>
        LET recipe == out.recipe
            Count(b) == IF b THEN 1 ELSE 0
            all == recipe.prep_time.has /\ recipe.cook_time.has /\ recipe.total_time.has
            gap == recipe.total_time.val - (recipe.prep_time.val + recipe.cook_time.val)
            attempted == Count(recipe.prep_time.has) + Count(recipe.cook_time.has) + Count(all)
            passed == Count(recipe.prep_time.has /\ is_valid_time(recipe.prep_time.val))
                      + Count(recipe.cook_time.has /\ is_valid_time(recipe.cook_time.val))
                      + Count(all /\ -10 <= gap /\ gap <= 10)
        IN  /\ out.raised = "none"
            /\ attempted > 0 =>
                  out.metrics.scores[4][1] * attempted = passed * out.metrics.scores[4][2]
            /\ attempted = 0 => IsZeroScore(out.metrics.scores[4])

-----------------------------------------------------------------------------
(* services/feedback/feedback_service.py: FeedbackService over the rows of  *)
(* models/feedback.py.  db.feedbacks[id] is the UserFeedback row id with    *)
(* its FeedbackReward, db.wallets[user_id] the UserWallet row of a user or  *)
(* Absent; credit is in cents and a quality score in hundredths.           *)

\* RewardTier, lowest first
RewardTier == <<"BRONZE", "SILVER", "GOLD", "PLATINUM">>

\* self.reward_tiers
reward_tiers ==
    [t \in Range(RewardTier) |->
        IF t = "BRONZE" THEN [min_quality |-> 30, points |-> 50, credit |-> 100]
        ELSE IF t = "SILVER" THEN [min_quality |-> 50, points |-> 100, credit |-> 200]
        ELSE IF t = "GOLD" THEN [min_quality |-> 70, points |-> 200, credit |-> 500]
        ELSE [min_quality |-> 90, points |-> 500, credit |-> 1000]]

\* _determine_reward_tier: the first tier from the top whose min_quality
\* the score meets, or None
determine_reward_tier(quality_score) ==
    LET met == {k \in 1..Len(RewardTier) :
                   quality_score >= reward_tiers[RewardTier[k]].min_quality}
    IN  IF met = {} THEN Absent
        ELSE Some(RewardTier[CHOOSE k \in met : \A j \in met : j <= k])

\* a UserWallet row as INSERT writes it: every Column default is 0
UserWallet ==
    [total_points |-> 0, available_points |-> 0, lifetime_points |-> 0,
     available_credit |-> 0, pending_credit |-> 0, feedback_count |-> 0]

\* UserFeedback(...): a new feedback awaits verification
UserFeedback(user_id, quality_score) ==
    [user_id |-> user_id, status |-> "PENDING", quality_score |-> quality_score,
     reward |-> Absent]

\* FeedbackReward(feedback_id, tier, points_earned, credit_amount)
FeedbackReward(tier) ==
    [tier |-> tier, points_earned |-> reward_tiers[tier].points,
     credit_amount |-> reward_tiers[tier].credit, redeemed |-> FALSE]

\* The exception _process_feedback_reward raises, or "none".  A wallet that
\* _get_or_create_wallet has just made is not inserted yet, its columns are
\* None, and wallet.total_points += points raises TypeError.
process_feedback_reward_raises(d, user_id, quality_score) ==
    IF ~determine_reward_tier(quality_score).has THEN "none"
    ELSE IF ~d.wallets[user_id].has THEN "TypeError"
    ELSE "none"

\* _process_feedback_reward for the feedback row id, when it does not raise
process_feedback_reward(d, id) ==
    LET feedback == d.feedbacks[id]
        tier == determine_reward_tier(feedback.quality_score)
    IN  IF ~tier.has THEN d
        ELSE LET reward_config == reward_tiers[tier.val]
             IN  [d EXCEPT
                    !.feedbacks[id].reward = Some(FeedbackReward(tier.val)),
                    !.wallets[feedback.user_id].val =
                        [@ EXCEPT !.total_points = @ + reward_config.points,
                                  !.available_points = @ + reward_config.points,
                                  !.lifetime_points = @ + reward_config.points,
                                  !.pending_credit = @ + reward_config.credit,
                                  !.feedback_count = @ + 1]]

\* submit_feedback: the rows after commit, or after rollback when it raises
submit_feedback(d, user_id, quality_score) ==
    IF process_feedback_reward_raises(d, user_id, quality_score) # "none" THEN d
    ELSE LET added == [d EXCEPT !.feedbacks = Append(@, UserFeedback(user_id, quality_score))]
         IN  process_feedback_reward(added, Len(added.feedbacks))

\* reward and not reward.redeemed
Unredeemed(feedback) == feedback.reward.has /\ ~feedback.reward.val.redeemed

\* The exception verify_feedback raises, or "none"
verify_feedback_raises(d, feedback_id, verified) ==
    IF feedback_id \notin 1..Len(d.feedbacks) THEN "ValueError"
    ELSE IF Unredeemed(d.feedbacks[feedback_id])
            /\ ~d.wallets[d.feedbacks[feedback_id].user_id].has
    THEN "TypeError"
    ELSE "none"

\* Mutant: verification adds the credit to available_credit and leaves it
\* in pending_credit too.
verify_feedback_KeepsPending(d, feedback_id, verified) ==
    LET feedback == d.feedbacks[feedback_id]
        wallet == Get(d.wallets[feedback.user_id], UserWallet)
        reward == feedback.reward.val
    IN  [d EXCEPT
            !.feedbacks[feedback_id].status = IF verified THEN "VERIFIED" ELSE "REJECTED",
            !.wallets[feedback.user_id] =
                Some(IF ~Unredeemed(feedback) THEN wallet
                     ELSE IF verified
                     THEN [wallet EXCEPT
                             !.available_credit = @ + reward.credit_amount]
                     ELSE [wallet EXCEPT
                             !.total_points = @ - reward.points_earned,
                             !.available_points = @ - reward.points_earned,
                             !.pending_credit = @ - reward.credit_amount])]

\* Mutant: rejection takes the credit back and leaves the points.
verify_feedback_KeepsPoints(d, feedback_id, verified) ==
    LET feedback == d.feedbacks[feedback_id]
        wallet == Get(d.wallets[feedback.user_id], UserWallet)
        reward == feedback.reward.val
    IN  [d EXCEPT
            !.feedbacks[feedback_id].status = IF verified THEN "VERIFIED" ELSE "REJECTED",
            !.wallets[feedback.user_id] =
                Some(IF ~Unredeemed(feedback) THEN wallet
                     ELSE IF verified
                     THEN [wallet EXCEPT
                             !.available_credit = @ + reward.credit_amount,
                             !.pending_credit = @ - reward.credit_amount]
                     ELSE [wallet EXCEPT
                             !.pending_credit = @ - reward.credit_amount])]

\* verify_feedback, when it does not raise: the rows after commit.  A wallet
\* made here is inserted by the commit, with its defaults.
verify_feedback(d, feedback_id, verified) ==
    LET feedback == d.feedbacks[feedback_id]
        wallet == Get(d.wallets[feedback.user_id], UserWallet)
        reward == feedback.reward.val
    IN  [d EXCEPT
            !.feedbacks[feedback_id].status = IF verified THEN "VERIFIED" ELSE "REJECTED",
            !.wallets[feedback.user_id] =
                Some(IF ~Unredeemed(feedback) THEN wallet
                     ELSE IF verified
                     THEN [wallet EXCEPT
                             !.available_credit = @ + reward.credit_amount,
                             !.pending_credit = @ - reward.credit_amount]
                     ELSE [wallet EXCEPT
                             !.total_points = @ - reward.points_earned,
                             !.available_points = @ - reward.points_earned,
                             !.pending_credit = @ - reward.credit_amount])]

-----------------------------------------------------------------------------
(* SpecWallet: feedback is submitted and verified or rejected *)

MaxFeedback == 3
MaxVerify == 3

UserIds == {1, 2}

\* quality scores below every tier, and in the BRONZE, SILVER and PLATINUM tiers
QualityScores == {10, 30, 55, 95}

InitWallet ==
    /\ recipes = <<>>
    /\ user = NewUser
    /\ now = 0
    /\ out = [op |-> "init"]
    /\ before = user
    /\ crashed = FALSE
    /\ cast = 0
    /\ history = <<>>
    /\ procs = <<>>
    /\ db = [feedbacks |-> <<>>, wallets |-> [u \in UserIds |-> Absent], calls |-> 0]

SubmitFeedback ==
    \E user_id \in UserIds, quality_score \in QualityScores :
        /\ Len(db.feedbacks) < MaxFeedback
        /\ db' = submit_feedback(db, user_id, quality_score)
        /\ out' = [op |-> "submit_feedback", user_id |-> user_id,
                   raised |-> process_feedback_reward_raises(db, user_id, quality_score),
                   was |-> db]
        /\ UNCHANGED <<recipes, user, now, before, crashed, cast, history, procs>>

VerifyFeedback ==
    \E feedback_id \in 1..MaxFeedback, verified \in BOOLEAN :
        /\ db.calls < MaxVerify
        /\ db' = [(IF verify_feedback_raises(db, feedback_id, verified) = "none"
                   THEN verify_feedback(db, feedback_id, verified)
                   ELSE db) EXCEPT !.calls = @ + 1]
        /\ out' = [op |-> "verify_feedback", feedback_id |-> feedback_id,
                   verified |-> verified,
                   raised |-> verify_feedback_raises(db, feedback_id, verified),
                   was |-> db]
        /\ UNCHANGED <<recipes, user, now, before, crashed, cast, history, procs>>

NextWallet == SubmitFeedback \/ VerifyFeedback

SpecWallet == InitWallet /\ [][NextWallet]_vars

-----------------------------------------------------------------------------
(* Claims about the wallet *)

\* the feedback rows of a user that carry a reward
Rewarded(d, user_id) ==
    {i \in 1..Len(d.feedbacks) :
        d.feedbacks[i].user_id = user_id /\ d.feedbacks[i].reward.has}

\* verify_feedback was called on a feedback row that carries a reward
Settled(verified) ==
    /\ out.op = "verify_feedback"
    /\ out.verified = verified
    /\ out.feedback_id \in 1..Len(out.was.feedbacks)
    /\ out.was.feedbacks[out.feedback_id].reward.has

\* the call was the first on its feedback, the only rewarded one of its user
FirstAndOnly ==
    LET feedback == out.was.feedbacks[out.feedback_id]
    IN  /\ feedback.status = "PENDING"
        /\ Rewarded(out.was, feedback.user_id) = {out.feedback_id}

C24_SettledOnce ==
    /\ \A u \in UserIds : db.wallets[u].has => db.wallets[u].val.pending_credit >= 0
    /\ (/\ out.op = "verify_feedback"
        /\ out.feedback_id \in 1..Len(out.was.feedbacks)
        /\ out.was.feedbacks[out.feedback_id].status # "PENDING")
       => db.wallets = out.was.wallets

\* get_recipe_cooks: the sessions of one recipe, by their place in the log
get_recipe_cooks(h, recipe_name) ==
    {k \in 1..Len(h) : h[k].recipe_name = recipe_name}

\* C25: after any sequence of log_cook calls, calls rejected for an invalid
\* taste or cleanup rank included, the number of logged sessions of a recipe
\* equals the number of feedback events log_cook appended to that recipe.
C25_LogMatchesVotes ==
    \A i \in 1..Len(recipes) :
        Cardinality(get_recipe_cooks(history, recipes[i].name)) = Len(recipes[i].votes)

\* C29: after any sequence of add_feedback calls (made through log_cook)
\* every recipe's votes and cleanups have the same length: a call appends
\* one entry to both lists, or, when the taste or the cleanup rank is not a
\* known level, raises ValueError and appends to neither.
C29_VotesMatchCleanups ==
    /\ \A i \in 1..Len(recipes) :
          Len(recipes[i].votes) = Len(recipes[i].cleanups)
    /\ Logged =>
          LET r == recipes[out.recipe]
              known == /\ out.taste \in Keys(SCORE_LEVELS)
                       /\ out.cleanup \in Keys(CLEANUP_LEVELS)
          IN  IF known
              THEN /\ r.votes = Append(out.was.votes, out.taste)
                   /\ r.cleanups = Append(out.was.cleanups, out.cleanup)
                   /\ out.raised # "ValueError"
              ELSE /\ r.votes = out.was.votes
                   /\ r.cleanups = out.was.cleanups
                   /\ out.raised = "ValueError"

\* C29 witness: a call with a known taste and an unknown cleanup rank on a
\* recipe that already has one event leaves both lists as they were.
C29_Witness ==
    /\ Logged
    /\ out.taste \in Keys(SCORE_LEVELS)
    /\ out.cleanup = BadRank
    /\ out.raised = "ValueError"
    /\ Len(out.was.votes) = 1
    /\ recipes[out.recipe].votes = out.was.votes
    /\ recipes[out.recipe].cleanups = out.was.cleanups

-----------------------------------------------------------------------------
(* SpecTime: the time factor of Recipe.calculate_value on two recipes *)

\* totals on both sides of 20, 45 and 90 minutes per serving, for one and
\* for two servings
TimedRecipes ==
    {Recipe("t", Lines(1), Steps(1), p, c, s) :
        p \in {0, 1}, c \in {19, 20, 39, 40, 44, 45, 89, 90, 179, 180}, s \in {1, 2}}

InitTime ==
    /\ recipes = <<>>
    /\ user = NewUser
    /\ now = 0
    /\ out \in {[op |-> "input", recipe |-> r, other |-> o] :
                   r \in TimedRecipes, o \in TimedRecipes}
    /\ before = user
    /\ crashed = FALSE
    /\ cast = 0
    /\ history = <<>>
    /\ procs = <<>>
    /\ db = <<>>

TimeFactor ==
    /\ out.op = "input"
    /\ out' = [op |-> "time", recipe |-> out.recipe, other |-> out.other,
               factor |-> time(out.recipe), other_factor |-> time(out.other)]
    /\ UNCHANGED <<recipes, user, now, before, crashed, cast, history, procs, db>>

NextTime == TimeFactor

SpecTime == InitTime /\ [][NextTime]_vars

\* C22: the time factor is 1 when timePerServing <= 20, 2 when > 20 and
\* <= 45, 3 when > 45 and <= 90, 4 when > 90, with
\* timePerServing = (prep + cook) / servings; and it is non-decreasing in
\* timePerServing.
C22_TimeBuckets ==
    out.op = "time" =>
        LET t == out.recipe.prep_time + out.recipe.cook_time
            s == out.recipe.servings
            u == out.other.prep_time + out.other.cook_time
            v == out.other.servings
        IN  /\ t <= 20 * s => out.factor = Frac(1, 1)
            /\ (t > 20 * s /\ t <= 45 * s) => out.factor = Frac(2, 1)
            /\ (t > 45 * s /\ t <= 90 * s) => out.factor = Frac(3, 1)
            /\ t > 90 * s => out.factor = Frac(4, 1)
            /\ t * v <= u * s => FLeq(out.factor, out.other_factor)

\* C22 witness: exactly 45 minutes per serving is still in the second
\* bucket, and 45.5 minutes per serving is in the third.
C22_Witness ==
    /\ out.op = "time"
    /\ out.recipe.prep_time + out.recipe.cook_time = 45
    /\ out.recipe.servings = 1
    /\ out.other.prep_time + out.other.cook_time = 91
    /\ out.other.servings = 2
    /\ out.factor = Frac(2, 1)
    /\ out.other_factor = Frac(3, 1)

-----------------------------------------------------------------------------
(* SpecOrder: one collection of feedback events applied to two copies of a  *)
(* user, by User.adjust_coefficients, in two orders                         *)

EventCount == 3

\* an event is a recipe of CallRecipes (the golden one, or the one with no
\* servings), a taste rank and a cleanup rank
OrderEvents ==
    {[recipe |-> i, taste |-> t, cleanup |-> c] :
        i \in {1, 3}, t \in {"Hate", "Crave"}, c \in {"None", "Heavy"}}

Orders == {p \in [1..EventCount -> 1..EventCount] : \A i, j \in 1..EventCount : p[i] = p[j] => i = j}

OrderStarts == {Default, Coefficients(15, CoeffCap, 15, 25, 15)}

InitOrder ==
    /\ recipes = CallRecipes
    /\ user \in {[NewUser EXCEPT !.coefficients = c] : c \in OrderStarts}
    /\ now = 0
    /\ before = user
    /\ out \in {[op |-> "input", events |-> e, order |-> p, done |-> 0, mirror |-> user] :
                   e \in [1..EventCount -> OrderEvents], p \in Orders}
    /\ crashed = FALSE
    /\ cast = 0
    /\ history = <<>>
    /\ procs = <<>>
    /\ db = <<>>

\* the next event of the collection goes to the user, the next event of the
\* other order to the mirror user
ApplyNext ==
    /\ out.done < EventCount
    /\ LET e == out.events[out.done + 1]
           m == out.events[out.order[out.done + 1]]
       IN  /\ user' = AfterFeedback(user, recipes[e.recipe], e.taste, e.cleanup)
           /\ out' = [out EXCEPT
                        !.op = "adjust_coefficients",
                        !.done = @ + 1,
                        !.mirror = AfterFeedback(@, recipes[m.recipe], m.taste, m.cleanup)]
    /\ before' = user
    /\ UNCHANGED <<recipes, now, crashed, cast, history, procs, db>>

NextOrder == ApplyNext

SpecOrder == InitOrder /\ [][NextOrder]_vars

Learned == {"C_time", "C_effort", "C_sacrifice"}

\* C26: C_time, C_effort and C_sacrifice never increase under
\* adjust_coefficients, and after a collection of feedback events, each on
\* its recipe, they are the same for every order of the events.
C26_OrderIndependent ==
    /\ \A c \in Learned : user.coefficients[c] <= before.coefficients[c]
    /\ out.done = EventCount =>
          \A c \in Learned : user.coefficients[c] = out.mirror.coefficients[c]

\* C26 witness: three events applied in two different orders, C_time cut at
\* the floor; C_taste, which the claim leaves out, does depend on the order.
C26_Witness ==
    /\ out.done = EventCount
    /\ out.order[1] # 1
    /\ user.coefficients["C_time"] = CoeffFloor
    /\ before.coefficients["C_time"] = CoeffFloor
    /\ user.coefficients["C_taste"] # out.mirror.coefficients["C_taste"]


-----------------------------------------------------------------------------
(* SpecFrame: one User.adjust_coefficients call on users whose profile     *)
(* and C_risk differ from the defaults                                     *)

\* users as edit_user and load_user can leave them
FrameUsers ==
    {[cook_ability |-> a,
      novelty_push |-> n,
      nostalgia_sensitivity |-> 100 - n,
      allergies |-> al,
      likes |-> <<>>,
      dislikes |-> dl,
      coefficients |-> Coefficients(t, rk, o, o, o)] :
        a \in Abilities, n \in {50, 80},
        al \in {<<>>, <<<<"n", "u", "t">>>>}, dl \in {<<>>, <<<<"b">>>>},
        t \in {CoeffFloor, CoeffCap}, rk \in {CoeffFloor, 55, CoeffCap},
        o \in {15, CoeffCap}}

InitFrame ==
    /\ recipes = CallRecipes
    /\ user \in FrameUsers
    /\ now = 0
    /\ out = [op |-> "init"]
    /\ before = user
    /\ crashed = FALSE
    /\ cast = 0
    /\ history = <<>>
    /\ procs = <<>>
    /\ db = <<>>

SpecFrame == InitFrame /\ [][NextCall]_vars

\* C30: a call of adjust_coefficients, with any taste and cleanup rank, known
\* or not, leaves C_risk, cook_ability, allergies, dislikes, novelty_push and
\* nostalgia_sensitivity of the user as they were, and every field of the
\* recipe it was given as it was.
C30_Frame ==
    out.op = "adjust_coefficients" =>
        /\ user.coefficients["C_risk"] = before.coefficients["C_risk"]
        /\ user.cook_ability = before.cook_ability
        /\ user.allergies = before.allergies
        /\ user.dislikes = before.dislikes
        /\ user.novelty_push = before.novelty_push
        /\ user.nostalgia_sensitivity = before.nostalgia_sensitivity
        /\ recipes[out.recipe] = CallRecipes[out.recipe]

\* C30 witness: a Hate / Heavy call on the golden recipe lowered the four
\* other coefficients of a Chef with an allergy and C_risk 0.55.
C30_Witness ==
    /\ out.op = "adjust_coefficients"
    /\ out.raised = "none"
    /\ out.taste = "Hate"
    /\ out.cleanup = "Heavy"
    /\ recipes[out.recipe] = GoldenRecipe
    /\ before.cook_ability = "Chef"
    /\ before.allergies # <<>>
    /\ before.coefficients = Coefficients(CoeffCap, 55, CoeffCap, CoeffCap, CoeffCap)
    /\ user.coefficients = Coefficients(95, 55, 90, 80, 90)

====
